---- MODULE Spec2Model ----
(***************************************************************************)
(* Retail management system: the returns / RMA lifecycle                   *)
(* (services/returns_service.py, models.py), the refund orchestrator       *)
(* (services/refund_service.py, payment_service.py, inventory_service.py)  *)
(* and the checkout path of main.py.                                       *)
(*                                                                         *)
(* Spec          service calls run one after the other (one DB session).   *)
(* Later specifications in this module run two sessions step by step.      *)
(***************************************************************************)
EXTENDS Integers, Sequences, FiniteSets, TLC

(***************************************************************************)
(* Bounds of the model                                                     *)
(***************************************************************************)
MaxRequests == 2      \* return requests ever created
MaxPayload == 2       \* entries in one create_return_request items list
MaxPurchased == 2     \* largest purchased quantity of a sale item
NumSaleItems == 1     \* sale items of the completed sale
InitStock == 1        \* Product.stock of every product at start
FinalUnitPrice == 100 \* SaleItem.final_unit_price of every sale item

(***************************************************************************)
(* Program constants                                                       *)
(***************************************************************************)
RETURN_WINDOW_DAYS == 30
MAX_RETURN_ITEM_QUANTITY == 5
FEATURE_RETURNS_ENABLED == TRUE
RETURNS_REQUIRE_PHOTOS == FALSE

PENDING_CUSTOMER_INFO == "PENDING_CUSTOMER_INFO"
PENDING_AUTHORIZATION == "PENDING_AUTHORIZATION"
AUTHORIZED == "AUTHORIZED"
IN_TRANSIT == "IN_TRANSIT"
RECEIVED == "RECEIVED"
UNDER_INSPECTION == "UNDER_INSPECTION"
APPROVED == "APPROVED"
REJECTED == "REJECTED"
REFUNDED == "REFUNDED"
CANCELLED == "CANCELLED"

ReturnRequestStatus ==
    { PENDING_CUSTOMER_INFO, PENDING_AUTHORIZATION, AUTHORIZED, IN_TRANSIT,
      RECEIVED, UNDER_INSPECTION, APPROVED, REJECTED, REFUNDED, CANCELLED }

InspectionResult == { "PENDING", "APPROVED", "PARTIALLY_APPROVED", "REJECTED" }

\* ReturnRequest._VALID_TRANSITIONS
VALID_TRANSITIONS(s) ==
    CASE s = PENDING_CUSTOMER_INFO -> { PENDING_AUTHORIZATION, CANCELLED }
      [] s = PENDING_AUTHORIZATION -> { AUTHORIZED, REJECTED, CANCELLED }
      [] s = AUTHORIZED -> { IN_TRANSIT, REJECTED }
      [] s = IN_TRANSIT -> { RECEIVED }
      [] s = RECEIVED -> { UNDER_INSPECTION }
      [] s = UNDER_INSPECTION -> { APPROVED, REJECTED }
      [] s = APPROVED -> { REFUNDED }
      [] s = REJECTED -> { CANCELLED }
      [] OTHER -> {}

\* ReturnRequest.can_transition
can_transition(status, new_status) == new_status \in VALID_TRANSITIONS(status)

(***************************************************************************)
(* The fixture: one customer, one completed sale with a completed payment. *)
(* Sale item s is a line of product s.                                     *)
(***************************************************************************)
TheSale == 1
TheCustomer == 1
SaleItemIds == 1..NumSaleItems
Products == 1..NumSaleItems
ProductOf(s) == s
SaleIdInputs == { TheSale, TheSale + 1 }
CustomerInputs == { TheCustomer, TheCustomer + 1 }
DayInputs == { 1, RETURN_WINDOW_DAYS, RETURN_WINDOW_DAYS + 1 }
\* entries of an items list: every sale item with every quantity up to one
\* more than the largest purchase, an entry without id, an entry without
\* quantity, and an entry naming a sale item the sale does not have
PayloadEntries ==
    [ sale_item_id : SaleItemIds, quantity : 1..(MaxPurchased + 1) ]
    \cup { [ sale_item_id |-> 0, quantity |-> 1 ],
           [ sale_item_id |-> 1, quantity |-> 0 ],
           [ sale_item_id |-> NumSaleItems + 1, quantity |-> 1 ] }
Payloads ==
    UNION { [ 1..n -> PayloadEntries ] : n \in 0..MaxPayload }
PhotoInputs == { 1 }
GatewayOutcomes == { "ok", "timeout", "unavailable" }
AmountOverrides == { 0, FinalUnitPrice \div 2 }

\* no FlashSale row
NoFlashSale == [ status |-> "none" ]

VARIABLES
    purchased,      \* SaleItem.quantity of each sale item of the sale
    requests,       \* ReturnRequest rows, index = returnRequestID
    refunds,        \* Refund rows, index = refundID
    stock,          \* Product.stock
    notifications,  \* published status changes, per reference_id
    gatewayRefunds, \* successful gateway refunds, per return request
    lastOp,         \* the last service call and what it returned
    sess,           \* per request-handling session: position and what its
                    \* SQLAlchemy session holds in memory
    sales,          \* the cart Sale row of each shopper
    locks,          \* rows locked by an open transaction: << row, session >>
    breaker,        \* the CircuitBreakerState row of the payment service
    clock,          \* the time, in units of the breaker's timeout
    calls,          \* outcomes of the operations run through the breaker
    flash_sale,     \* the FlashSale row
    reservations    \* FlashSaleReservation rows, index = reservationID

brkVars == << breaker, clock, calls >>
flashVars == << flash_sale, reservations >>
rmaVars ==
    << purchased, requests, refunds, stock, notifications, gatewayRefunds,
       lastOp, brkVars, flashVars >>
concVars == << sess, sales, locks >>
vars == << rmaVars, concVars >>

Sessions == { "A", "B" }
Idle == [ pc |-> "idle" ]

\* failure_threshold and timeout_duration of the breaker as instantiated
failure_threshold == 2
timeout_duration == 2

\* CircuitBreakerState as first stored: closed, no failure counted
ClosedBreaker ==
    [ state |-> "closed", failure_count |-> 0, next_attempt_time |-> 0 ]

(***************************************************************************)
(* Helpers over the tables                                                 *)
(***************************************************************************)
RECURSIVE SumQty(_, _)
\* total quantity the ReturnItems `items` hold of sale item s
SumQty(items, s) ==
    IF items = << >> THEN 0
    ELSE (IF Head(items).saleItemID = s THEN Head(items).quantity ELSE 0)
         + SumQty(Tail(items), s)

RECURSIVE ReservedUpTo(_, _, _)
ReservedUpTo(reqs, s, k) ==
    IF k = 0 THEN 0
    ELSE (IF reqs[k].status \notin { REJECTED, CANCELLED }
            THEN SumQty(reqs[k].return_items, s) ELSE 0)
         + ReservedUpTo(reqs, s, k - 1)

\* _build_return_items: reserved_quantity of a sale item
reserved_quantity(reqs, s) == ReservedUpTo(reqs, s, Len(reqs))

Max(a, b) == IF a >= b THEN a ELSE b
Min(a, b) == IF a <= b THEN a ELSE b

\* ReturnsService._get_completed_sale
get_completed_sale(sale_id, customer_id) ==
    /\ sale_id = TheSale
    /\ customer_id = TheCustomer
    /\ \E s \in SaleItemIds : purchased[s] > 0

\* a policy window that excludes its last day
is_within_policy_window_exclusive(delta_days) ==
    delta_days < RETURN_WINDOW_DAYS

\* ReturnsService._is_within_policy_window, delta_days = (now - sale_date).days
is_within_policy_window(delta_days) == delta_days <= RETURN_WINDOW_DAYS

\* one pass of the loop of _build_return_items: the error of one payload
\* entry, or "ok"
ItemCheck(reqs, sale_id, payload) ==
    LET sid == payload.sale_item_id
        quantity == payload.quantity
    IN  IF sid = 0 \/ quantity <= 0
          THEN "Each item must include sale_item_id and positive quantity"
        ELSE IF ~(sid \in SaleItemIds /\ sale_id = TheSale)
          THEN "Sale item not found for this sale"
        ELSE IF quantity > MAX_RETURN_ITEM_QUANTITY
          THEN "Quantity exceeds policy max"
        ELSE IF quantity > purchased[sid]
          THEN "Cannot return more units than were purchased"
        ELSE LET remaining_quantity ==
                     Max(0, purchased[sid] - reserved_quantity(reqs, sid))
             IN  IF remaining_quantity <= 0
                   THEN "All units for this item already have return requests."
                 ELSE IF quantity > remaining_quantity
                   THEN "Only some unit(s) remain eligible for return."
                 ELSE "ok"

\* ReturnsService._build_return_items: (ok, message, prepared items).  Every
\* entry is checked against the rows already in the database; the items
\* prepared earlier in the same call are not among them.
build_return_items(reqs, sale_id, items) ==
    IF items = << >>
      THEN [ ok |-> FALSE,
             msg |-> "At least one item must be selected for return",
             items |-> << >> ]
    ELSE LET bad == { k \in 1..Len(items) :
                         ItemCheck(reqs, sale_id, items[k]) # "ok" }
         IN  IF bad # {}
               THEN [ ok |-> FALSE,
                      msg |-> ItemCheck(reqs, sale_id,
                                  items[CHOOSE k \in bad :
                                            \A j \in bad : k <= j]),
                      items |-> << >> ]
             ELSE [ ok |-> TRUE, msg |-> "Items validated",
                    items |-> [ k \in 1..Len(items) |->
                                  [ saleItemID |-> items[k].sale_item_id,
                                    quantity |-> items[k].quantity ] ] ]

RECURSIVE requested_amount(_)
\* ReturnRequest.calculate_requested_amount over
\* ReturnItem.requested_refund_amount (restocking_fee is 0 by default)
requested_amount(items) ==
    IF items = << >> THEN 0
    ELSE Max(FinalUnitPrice
               * Min(Head(items).quantity, purchased[Head(items).saleItemID]),
             0)
         + requested_amount(Tail(items))

\* Payment.amount of the sale's payment: the sale total
PaymentAmount ==
    LET RECURSIVE Tot(_)
        Tot(k) == IF k = 0 THEN 0
                  ELSE FinalUnitPrice * purchased[k] + Tot(k - 1)
    IN  Tot(NumSaleItems)

\* PaymentService.refund: (success, message, gateway invoked).  `outcome`
\* is what the circuit breaker returns for _perform_refund.
PaymentService_refund(amount, outcome) ==
    IF amount <= 0
      THEN [ ok |-> FALSE, msg |-> "Refund amount must be positive",
             invoked |-> FALSE ]
    ELSE IF amount > PaymentAmount
      THEN [ ok |-> FALSE, msg |-> "Refund amount exceeds original payment",
             invoked |-> FALSE ]
    ELSE IF outcome = "ok"
      THEN [ ok |-> TRUE, msg |-> "Refund processed successfully",
             invoked |-> TRUE ]
    ELSE IF outcome = "timeout"
      THEN [ ok |-> FALSE, msg |-> "Payment processor timeout",
             invoked |-> TRUE ]
    ELSE [ ok |-> FALSE, msg |-> "service temporarily unavailable",
           invoked |-> FALSE ]

RECURSIVE apply_return_stock_purchased(_, _)
\* a restock that adds the purchased quantity instead of the returned one
apply_return_stock_purchased(stk, items) ==
    IF items = << >> THEN stk
    ELSE LET p == ProductOf(Head(items).saleItemID)
         IN  apply_return_stock_purchased(
                 [ stk EXCEPT ![p] = stk[p] + purchased[Head(items).saleItemID] ],
                 Tail(items))

RECURSIVE apply_return_stock(_, _)
\* InventoryService.apply_return_stock: the stock after restocking `items`
apply_return_stock(stk, items) ==
    IF items = << >> THEN stk
    ELSE LET return_item == Head(items)
             p == ProductOf(return_item.saleItemID)
             approved_quantity ==
                 Min(return_item.quantity, purchased[return_item.saleItemID])
         IN  apply_return_stock(
                 [ stk EXCEPT ![p] = stk[p] + approved_quantity ],
                 Tail(items))

\* ReturnRequest.refund (uselist=False): the id of a Refund row of request
\* r, or 0
RefundOf(rfs, r) ==
    IF \E k \in 1..Len(rfs) : rfs[k].returnRequestID = r
      THEN CHOOSE k \in 1..Len(rfs) :
               /\ rfs[k].returnRequestID = r
               /\ \A j \in 1..Len(rfs) :
                      rfs[j].returnRequestID = r => k <= j
      ELSE 0

\* a mark_completed that forgets to set the status
mark_completed_keeps_status(refund) == refund

\* Refund.mark_completed
mark_completed(refund) == [ refund EXCEPT !.status = "COMPLETED" ]

\* a mark_failed that drops the reason
mark_failed_without_reason(refund, reason) ==
    [ refund EXCEPT !.status = "FAILED" ]

\* Refund.mark_failed
mark_failed(refund, reason) ==
    [ refund EXCEPT !.status = "FAILED", !.failure_reason = reason ]

NoOp == [ op |-> "none", req |-> 0, ok |-> TRUE, msg |-> "",
          trans |-> << >>, published |-> << >>, gateway |-> FALSE,
          input |-> << >> ]

Result(op, r, ok, msg, trans, published, gateway) ==
    [ op |-> op, req |-> r, ok |-> ok, msg |-> msg, trans |-> trans,
      published |-> published, gateway |-> gateway, input |-> << >> ]

\* a call's result together with the arguments that decided it
WithInput(result, input) == [ result EXCEPT !.input = input ]

Failure(op, r, msg) == Result(op, r, FALSE, msg, << >>, << >>, FALSE)

\* publish_rma_status_change: one notification per call
publish_rma_status_change(ntf, r, events) ==
    [ ntf EXCEPT ![r] = ntf[r] \o events ]

(***************************************************************************)
(* Init                                                                    *)
(***************************************************************************)
Init ==
    /\ purchased \in [ SaleItemIds -> 1..MaxPurchased ]
    /\ requests = << >>
    /\ refunds = << >>
    /\ stock = [ p \in Products |-> InitStock ]
    /\ notifications = [ r \in 1..MaxRequests |-> << >> ]
    /\ gatewayRefunds = [ r \in 1..MaxRequests |-> 0 ]
    /\ lastOp = NoOp
    /\ breaker = ClosedBreaker
    /\ clock = 0
    /\ calls = << >>
    /\ flash_sale = NoFlashSale
    /\ reservations = << >>
    /\ sess = [ t \in Sessions |-> Idle ]
    /\ sales = << >>
    /\ locks = {}

(***************************************************************************)
(* ReturnsService.create_return_request                                    *)
(***************************************************************************)
CreateReturnRequest(sale_id, customer_id, delta_days, photos) ==
    /\ Len(requests) < MaxRequests
    /\ LET op == "create_return_request"
           id == Len(requests) + 1
           days == << delta_days >>
       IN  IF ~FEATURE_RETURNS_ENABLED
             THEN /\ lastOp' = WithInput(Failure(op, 0,
                                 "Returns feature is disabled"), days)
                  /\ UNCHANGED << requests, notifications >>
           ELSE IF ~get_completed_sale(sale_id, customer_id)
             THEN /\ lastOp' = WithInput(Failure(op, 0,
                                 "Sale not found or not eligible for return"),
                                 days)
                  /\ UNCHANGED << requests, notifications >>
           ELSE IF ~is_within_policy_window(delta_days)
             THEN /\ lastOp' = WithInput(Failure(op, 0,
                                 "Return window has expired for this sale"),
                                 days)
                  /\ UNCHANGED << requests, notifications >>
           ELSE IF photos = 0 /\ RETURNS_REQUIRE_PHOTOS
             THEN /\ lastOp' = WithInput(Failure(op, 0,
                                 "Photos are required for this type of return"),
                                 days)
                  /\ UNCHANGED << requests, notifications >>
           ELSE \E items \in Payloads :
                  LET built == build_return_items(requests, sale_id, items)
                  IN  IF ~built.ok
                        THEN /\ lastOp' = WithInput(Failure(op, 0, built.msg),
                                               days)
                             /\ UNCHANGED << requests, notifications >>
                      ELSE /\ requests' = Append(requests,
                                  [ status |-> PENDING_AUTHORIZATION,
                                    saleID |-> sale_id,
                                    customerID |-> customer_id,
                                    return_items |-> built.items,
                                    photos |-> photos,
                                    rma_number |-> << >>,
                                    decision_notes |-> "",
                                    shipment |-> "none",
                                    inspection |-> "none" ])
                           /\ notifications' = publish_rma_status_change(
                                  notifications, id,
                                  << << "", PENDING_AUTHORIZATION >> >>)
                           /\ lastOp' = WithInput(Result(op, id, TRUE,
                                  "Return request submitted",
                                  << << "", PENDING_AUTHORIZATION >> >>,
                                  << << "", PENDING_AUTHORIZATION >> >>, FALSE),
                                  days)
    /\ UNCHANGED << flashVars, brkVars, purchased, refunds, stock, gatewayRefunds, concVars >>

\* the request row after ReturnRequest.transition_to(new_status); the caller
\* checks can_transition first (transition_to raises ValueError otherwise)
transition_to(request, new_status) == [ request EXCEPT !.status = new_status ]

RequestIdInputs == 1..(MaxRequests + 1)
NotesInputs == { "notes" }
DateInputs == { 20261101 }
ResultInputs == InspectionResult \cup { "BOGUS" }

\* _require_status without the status test
require_status_any(r, allowed_statuses) == r \in 1..Len(requests)

\* ReturnsService._require_status
require_status(r, allowed_statuses) ==
    /\ r \in 1..Len(requests)
    /\ requests[r].status \in allowed_statuses

(***************************************************************************)
(* ReturnsService.authorize_return                                         *)
(***************************************************************************)
\* an RMA number made of the date alone
rma_number_of_date(date, r) == << date >>

\* f"RMA-{date:%Y%m%d}-{returnRequestID:05d}": the date and the request id
rma_number_of(date, r) == << date, r >>

AuthorizeReturn(r, approve, decision_notes, date) ==
    /\ LET op == "authorize_return" IN
       IF r \notin 1..Len(requests)
         THEN /\ lastOp' = WithInput(Failure(op, r,
                             "Return request not found"), << approve >>)
              /\ UNCHANGED << requests, notifications >>
       ELSE IF requests[r].status
                 \notin { PENDING_AUTHORIZATION, PENDING_CUSTOMER_INFO }
         THEN /\ lastOp' = WithInput(Failure(op, r,
                             "Cannot authorize return in status"),
                             << approve >>)
              /\ UNCHANGED << requests, notifications >>
       ELSE LET old_status == requests[r].status
                new_status == IF approve THEN AUTHORIZED ELSE REJECTED
                moved == transition_to(requests[r], new_status)
                numbered ==
                    IF approve /\ moved.rma_number = << >>
                      THEN [ moved EXCEPT !.rma_number = rma_number_of(date, r) ]
                      ELSE moved
            IN  IF ~can_transition(old_status, new_status)
                  THEN /\ lastOp' = WithInput(Failure(op, r, "ValueError"),
                                           << approve >>)
                       /\ UNCHANGED << requests, notifications >>
                ELSE /\ requests' = [ requests EXCEPT ![r] =
                            [ numbered EXCEPT
                                !.decision_notes = decision_notes ] ]
                     /\ notifications' = publish_rma_status_change(
                            notifications, r,
                            << << old_status, new_status >> >>)
                     /\ lastOp' = WithInput(Result(op, r, TRUE,
                            IF approve THEN "Return authorized"
                                       ELSE "Return rejected",
                            << << old_status, new_status >> >>,
                            << << old_status, new_status >> >>, FALSE),
                            << approve >>)
    /\ UNCHANGED << flashVars, brkVars, purchased, refunds, stock, gatewayRefunds, concVars >>

\* a record_shipment that skips _require_status and assigns the status
\* directly
RecordShipmentUnchecked(r) ==
    /\ r \in 1..Len(requests)
    /\ requests' = [ requests EXCEPT ![r].status = IN_TRANSIT,
                                     ![r].shipment = "shipped" ]
    /\ notifications' = publish_rma_status_change(notifications, r,
           << << requests[r].status, IN_TRANSIT >> >>)
    /\ lastOp' = Result("record_shipment", r, TRUE,
           "Return shipment recorded",
           << << requests[r].status, IN_TRANSIT >> >>,
           << << requests[r].status, IN_TRANSIT >> >>, FALSE)
    /\ UNCHANGED << flashVars, brkVars, purchased, refunds, stock, gatewayRefunds, concVars >>

(***************************************************************************)
(* ReturnsService.record_shipment                                          *)
(***************************************************************************)
RecordShipment(r) ==
    /\ LET op == "record_shipment" IN
       IF ~require_status(r, { AUTHORIZED })
         THEN /\ lastOp' = Failure(op, r,
                             "Return request not in AUTHORIZED state")
              /\ UNCHANGED << requests, notifications >>
       ELSE LET old_status == requests[r].status IN
            IF ~can_transition(old_status, IN_TRANSIT)
              THEN /\ lastOp' = Failure(op, r, "ValueError")
                   /\ UNCHANGED << requests, notifications >>
            ELSE /\ requests' = [ requests EXCEPT ![r] =
                        [ transition_to(requests[r], IN_TRANSIT) EXCEPT
                            !.shipment = "shipped" ] ]
                 /\ notifications' = publish_rma_status_change(
                        notifications, r, << << old_status, IN_TRANSIT >> >>)
                 /\ lastOp' = Result(op, r, TRUE, "Return shipment recorded",
                        << << old_status, IN_TRANSIT >> >>,
                        << << old_status, IN_TRANSIT >> >>, FALSE)
    /\ UNCHANGED << flashVars, brkVars, purchased, refunds, stock, gatewayRefunds, concVars >>

(***************************************************************************)
(* ReturnsService.mark_received                                            *)
(***************************************************************************)
MarkReceived(r) ==
    /\ LET op == "mark_received" IN
       IF ~require_status(r, { IN_TRANSIT })
         THEN /\ lastOp' = Failure(op, r, "Return request not in transit")
              /\ UNCHANGED << requests, notifications >>
       ELSE IF requests[r].shipment = "none"
         THEN /\ lastOp' = Failure(op, r,
                             "No shipment record found for this return")
              /\ UNCHANGED << requests, notifications >>
       ELSE LET old_status == requests[r].status IN
            IF ~can_transition(old_status, RECEIVED)
              THEN /\ lastOp' = Failure(op, r, "ValueError")
                   /\ UNCHANGED << requests, notifications >>
            ELSE /\ requests' = [ requests EXCEPT ![r] =
                        [ transition_to(requests[r], RECEIVED) EXCEPT
                            !.shipment = "received" ] ]
                 /\ notifications' = publish_rma_status_change(
                        notifications, r, << << old_status, RECEIVED >> >>)
                 /\ lastOp' = Result(op, r, TRUE, "Return marked as received",
                        << << old_status, RECEIVED >> >>,
                        << << old_status, RECEIVED >> >>, FALSE)
    /\ UNCHANGED << flashVars, brkVars, purchased, refunds, stock, gatewayRefunds, concVars >>

(***************************************************************************)
(* ReturnsService.record_inspection                                        *)
(***************************************************************************)
RecordInspection(r, result) ==
    /\ LET op == "record_inspection" IN
       IF ~require_status(r, { RECEIVED, UNDER_INSPECTION })
         THEN /\ lastOp' = WithInput(Failure(op, r,
                             "Return request not ready for inspection"),
                             << result >>)
              /\ UNCHANGED << requests, notifications >>
       ELSE LET entry_status == requests[r].status
                advance == entry_status = RECEIVED
                advanced == IF advance
                              THEN transition_to(requests[r], UNDER_INSPECTION)
                              ELSE requests[r]
                \* old_status is read after the auto-advance
                old_status == advanced.status
                new_status ==
                    IF result \in { "APPROVED", "PARTIALLY_APPROVED" }
                      THEN APPROVED
                    ELSE IF result = "REJECTED" THEN REJECTED
                    ELSE old_status
                first == IF advance
                           THEN << << entry_status, UNDER_INSPECTION >> >>
                           ELSE << >>
                second == IF new_status # old_status
                            THEN << << old_status, new_status >> >>
                            ELSE << >>
            IN  IF \/ (advance
                        /\ ~can_transition(entry_status, UNDER_INSPECTION))
                   \/ result \notin InspectionResult
                   \/ (new_status # old_status
                        /\ ~can_transition(old_status, new_status))
                  THEN \* ValueError: nothing was committed
                       /\ lastOp' = WithInput(Failure(op, r, "ValueError"),
                                               << result >>)
                       /\ UNCHANGED << requests, notifications >>
                ELSE /\ requests' = [ requests EXCEPT ![r] =
                            [ transition_to(advanced, new_status) EXCEPT
                                !.inspection = result ] ]
                     /\ notifications' =
                            IF new_status # old_status
                              THEN publish_rma_status_change(notifications, r,
                                       << << old_status, new_status >> >>)
                              ELSE notifications
                     /\ lastOp' = WithInput(Result(op, r, TRUE,
                            "Inspection recorded", first \o second, second,
                            FALSE), << result >>)
    /\ UNCHANGED << flashVars, brkVars, purchased, refunds, stock, gatewayRefunds, concVars >>

(***************************************************************************)
(* RefundService.process_refund (ReturnsService.initiate_refund)           *)
(***************************************************************************)
ProcessRefund(r, amount_override, outcome) ==
    /\ UNCHANGED concVars
    /\ LET op == "process_refund" IN
        IF r \notin 1..Len(requests)
          THEN /\ lastOp' = Failure(op, r, "Return request not found")
               /\ UNCHANGED << flashVars, brkVars, purchased, requests, refunds, stock,
                               notifications, gatewayRefunds >>
        ELSE IF requests[r].status \notin { APPROVED, REFUNDED }
          THEN /\ lastOp' = Failure(op, r, "Return request is not approved")
               /\ UNCHANGED << flashVars, brkVars, purchased, requests, refunds, stock,
                               notifications, gatewayRefunds >>
        ELSE IF requests[r].status = REFUNDED
          THEN /\ lastOp' = Result(op, r, TRUE, "Return request already refunded",
                                   << >>, << >>, FALSE)
               /\ UNCHANGED << flashVars, brkVars, purchased, requests, refunds, stock,
                               notifications, gatewayRefunds >>
        ELSE LET refund_amount ==
                     IF amount_override # 0 THEN amount_override
                     ELSE requested_amount(requests[r].return_items)
                 existing == RefundOf(refunds, r)
                 pending ==
                     [ returnRequestID |-> r, amount |-> refund_amount,
                       status |-> "PENDING", failure_reason |-> "" ]
                 id == IF existing = 0 THEN Len(refunds) + 1 ELSE existing
                 flushed == IF existing = 0 THEN Append(refunds, pending)
                            ELSE [ refunds EXCEPT ![existing] = pending ]
                 pay == PaymentService_refund(refund_amount, outcome)
             IN  IF refund_amount <= 0
                   THEN /\ lastOp' = Failure(op, r,
                              "Calculated refund amount is zero; nothing to refund")
                        /\ UNCHANGED << flashVars, brkVars, purchased, requests, refunds, stock,
                                        notifications, gatewayRefunds >>
                 ELSE IF existing # 0 /\ refunds[existing].status = "COMPLETED"
                   THEN /\ lastOp' = Result(op, r, TRUE,
                              "Refund already completed", << >>, << >>, FALSE)
                        /\ UNCHANGED << flashVars, brkVars, purchased, requests, refunds, stock,
                                        notifications, gatewayRefunds >>
                 ELSE IF pay.ok
                   THEN /\ refunds' = [ flushed EXCEPT ![id] =
                               mark_completed(flushed[id]) ]
                        /\ requests' = [ requests EXCEPT ![r].status = REFUNDED ]
                        /\ stock' = apply_return_stock(stock,
                                        requests[r].return_items)
                        /\ gatewayRefunds' =
                               [ gatewayRefunds EXCEPT ![r] = @ + 1 ]
                        /\ lastOp' = Result(op, r, TRUE, pay.msg,
                               << << APPROVED, REFUNDED >> >>, << >>, TRUE)
                        /\ UNCHANGED << flashVars, brkVars, purchased, notifications >>
                 ELSE /\ refunds' = [ flushed EXCEPT ![id] =
                             mark_failed(flushed[id], pay.msg) ]
                      /\ lastOp' = Result(op, r, FALSE, pay.msg, << >>, << >>,
                             pay.invoked)
                      /\ UNCHANGED << flashVars, brkVars, purchased, requests, stock, notifications,
                                      gatewayRefunds >>

Next ==
    \/ \E sale_id \in SaleIdInputs, customer_id \in CustomerInputs,
          delta_days \in DayInputs, photos \in PhotoInputs :
          CreateReturnRequest(sale_id, customer_id, delta_days, photos)
    \/ \E r \in RequestIdInputs, approve \in BOOLEAN,
          decision_notes \in NotesInputs, date \in DateInputs :
          AuthorizeReturn(r, approve, decision_notes, date)
    \/ \E r \in RequestIdInputs : RecordShipment(r)
    \/ \E r \in RequestIdInputs : MarkReceived(r)
    \/ \E r \in RequestIdInputs, result \in ResultInputs :
          RecordInspection(r, result)
    \/ \E r \in RequestIdInputs, amount_override \in AmountOverrides,
          outcome \in GatewayOutcomes :
          ProcessRefund(r, amount_override, outcome)

Spec == Init /\ [][Next]_vars

(***************************************************************************)
(* Properties of the RMA lifecycle, service calls one after the other      *)
(***************************************************************************)
Statuses(reqs) == [ k \in 1..Len(reqs) |-> reqs[k].status ]
Last(seq) == seq[Len(seq)]

\* a sequence of (old, new) pairs that leads from status `from` to status
\* `to` along edges of the allowed-transition table
IsTablePath(trans, from, to) ==
    /\ trans # << >>
    /\ trans[1][1] = from
    /\ Last(trans)[2] = to
    /\ \A k \in 1..Len(trans) : trans[k][2] \in VALID_TRANSITIONS(trans[k][1])
    /\ \A k \in 1..(Len(trans) - 1) : trans[k + 1][1] = trans[k][2]

\* the statuses an operation moves a request to
TargetsOf(op) ==
    CASE op = "authorize_return" -> { AUTHORIZED, REJECTED }
      [] op = "record_shipment" -> { IN_TRANSIT }
      [] op = "mark_received" -> { RECEIVED }
      [] op = "record_inspection" -> { UNDER_INSPECTION, APPROVED, REJECTED }
      [] op = "process_refund" -> { REFUNDED }
      [] OTHER -> {}

\* the step is a call of `op` on the existing request r
IsCall(op, r) == lastOp'.op = op /\ lastOp'.req = r /\ r \in 1..Len(requests)

\* C1 (as claimed): for every sale item, the quantities held by the return
\* items of requests that are neither REJECTED nor CANCELLED sum to at most
\* the purchased quantity.
C1_ActiveReturnsWithinPurchased ==
    \A s \in SaleItemIds : reserved_quantity(requests, s) <= purchased[s]

\* C2 (as claimed): every status change is a path of table edges, and an
\* operation called on a request whose status has no edge to any of the
\* operation's target statuses fails and changes no status.
C2_NoEdgeFails ==
    [][ \A r \in 1..Len(requests) :
          /\ requests'[r].status # requests[r].status
               => /\ lastOp'.req = r
                  /\ IsTablePath(lastOp'.trans, requests[r].status,
                                 requests'[r].status)
          /\ \A op \in { "authorize_return", "record_shipment",
                         "mark_received", "record_inspection",
                         "process_refund" } :
               (IsCall(op, r)
                 /\ VALID_TRANSITIONS(requests[r].status) \cap TargetsOf(op) = {})
               => /\ ~lastOp'.ok
                  /\ Statuses(requests') = Statuses(requests) ]_rmaVars

\* C2 (amended): every status change is a path of table edges; an operation
\* called on a request whose status has no edge to any of the operation's
\* target statuses changes no status, and it fails unless it is
\* process_refund on a REFUNDED request, which reports success.
C2_TransitionsFollowTable ==
    [][ \A r \in 1..Len(requests) :
          /\ requests'[r].status # requests[r].status
               => /\ lastOp'.req = r
                  /\ IsTablePath(lastOp'.trans, requests[r].status,
                                 requests'[r].status)
          /\ \A op \in { "authorize_return", "record_shipment",
                         "mark_received", "record_inspection",
                         "process_refund" } :
               (IsCall(op, r)
                 /\ VALID_TRANSITIONS(requests[r].status) \cap TargetsOf(op) = {})
               => /\ Statuses(requests') = Statuses(requests)
                  /\ lastOp'.ok
                       <=> (op = "process_refund"
                             /\ requests[r].status = REFUNDED) ]_rmaVars

\* C2 witness: record_shipment was refused on a RECEIVED request, a status
\* without an edge to IN_TRANSIT
C2_Witness ==
    /\ lastOp.op = "record_shipment"
    /\ ~lastOp.ok
    /\ lastOp.req \in 1..Len(requests)
    /\ requests[lastOp.req].status = RECEIVED

RefundRowsOf(rfs, r) == { k \in 1..Len(rfs) : rfs[k].returnRequestID = r }

\* C4: process_refund on a REFUNDED request reports success, does not call
\* the payment gateway, and leaves the single COMPLETED Refund row, the
\* request and the stock as they were.
C4_RefundIdempotent ==
    [][ \A r \in 1..Len(requests) :
          (IsCall("process_refund", r) /\ requests[r].status = REFUNDED)
          => /\ lastOp'.ok
             /\ ~lastOp'.gateway
             /\ gatewayRefunds' = gatewayRefunds
             /\ refunds' = refunds
             /\ requests' = requests
             /\ stock' = stock
             /\ Cardinality(RefundRowsOf(refunds', r)) = 1
             /\ \A k \in RefundRowsOf(refunds', r) :
                    refunds'[k].status = "COMPLETED" ]_rmaVars

\* C4 witness: a process_refund call answered "already refunded"
C4_Witness ==
    /\ lastOp.op = "process_refund"
    /\ lastOp.ok
    /\ lastOp.msg = "Return request already refunded"
    /\ requests[lastOp.req].status = REFUNDED

PaymentFailures ==
    { "Payment processor timeout", "service temporarily unavailable",
      "Refund amount exceeds original payment" }

\* C5: when the payment service reports a failure to process_refund, the
\* call returns failure with that message, the request's Refund row is
\* FAILED with the message as failure reason, the request stays APPROVED
\* and the stock does not change.
C5_GatewayFailureKeepsApproved ==
    [][ \A r \in 1..Len(requests) :
          (IsCall("process_refund", r) /\ requests[r].status = APPROVED
             /\ (refunds' # refunds \/ lastOp'.msg \in PaymentFailures)
             /\ gatewayRefunds' = gatewayRefunds)
          => /\ ~lastOp'.ok
             /\ lastOp'.msg \in PaymentFailures
             /\ Cardinality(RefundRowsOf(refunds', r)) = 1
             /\ \A k \in RefundRowsOf(refunds', r) :
                    /\ refunds'[k].status = "FAILED"
                    /\ refunds'[k].failure_reason = lastOp'.msg
             /\ requests' = requests
             /\ stock' = stock ]_rmaVars

\* C5 witness: a refund was short-circuited by the open circuit breaker
C5_Witness ==
    /\ lastOp.op = "process_refund"
    /\ ~lastOp.ok
    /\ lastOp.msg = "service temporarily unavailable"
    /\ requests[lastOp.req].status = APPROVED
    /\ refunds[RefundOf(refunds, lastOp.req)].status = "FAILED"

\* C6: a successful refund of a request that holds, of every sale item, at
\* most the purchased quantity adds exactly the held quantity to the stock
\* of the item's product, and no other call of the lifecycle changes the
\* stock.
C6_RestockExactlyReturned ==
    [][ IF /\ lastOp'.op = "process_refund"
           /\ lastOp'.req \in 1..Len(requests)
           /\ requests[lastOp'.req].status = APPROVED
           /\ requests'[lastOp'.req].status = REFUNDED
          THEN (\A s \in SaleItemIds :
                    SumQty(requests[lastOp'.req].return_items, s)
                        <= purchased[s])
               => \A p \in Products :
                    stock'[p] = stock[p]
                      + SumQty(requests[lastOp'.req].return_items, p)
          ELSE stock' = stock ]_rmaVars

\* C6 witness: a request holding a single unit of a sale item bought twice
\* was refunded and the stock is one unit above its initial value
C6_Witness ==
    \E r \in 1..Len(requests) :
        /\ requests[r].status = REFUNDED
        /\ requests[r].return_items = << [ saleItemID |-> 1, quantity |-> 1 ] >>
        /\ purchased[1] = 2
        /\ stock[1] = InitStock + 1
        /\ lastOp.op = "process_refund"
        /\ lastOp.req = r

\* C10 (as claimed): the notifications published for a request are its
\* status history: they start at creation, each one starts at the status
\* the previous one ended in, and the last one ends in the current status.
C10_EveryTransitionPublished ==
    \A r \in 1..Len(requests) :
        /\ notifications[r] # << >>
        /\ notifications[r][1] = << "", PENDING_AUTHORIZATION >>
        /\ \A k \in 1..(Len(notifications[r]) - 1) :
               notifications[r][k + 1][1] = notifications[r][k][2]
        /\ Last(notifications[r])[2] = requests[r].status

(***************************************************************************)
(* Two request handlers inside RefundService.process_refund at the same    *)
(* time.  Each has its own SQLAlchemy session: what a session has read     *)
(* stays in its identity map, what it flushed is invisible to the other    *)
(* until commit, and an UPDATE holds its row until commit.                 *)
(***************************************************************************)
\* a request as authorize_return, record_shipment, mark_received and an
\* approving record_inspection leave it
ApprovedRequest(q) ==
    [ status |-> APPROVED, saleID |-> TheSale, customerID |-> TheCustomer,
      return_items |-> << [ saleItemID |-> 1, quantity |-> q ] >>,
      photos |-> 1,
      rma_number |-> << CHOOSE d \in DateInputs : TRUE, 1 >>,
      decision_notes |-> "notes", shipment |-> "received",
      inspection |-> "APPROVED" ]

\* what was published for it on the way
ApprovedHistory ==
    << << "", PENDING_AUTHORIZATION >>, << PENDING_AUTHORIZATION, AUTHORIZED >>,
       << AUTHORIZED, IN_TRANSIT >>, << IN_TRANSIT, RECEIVED >>,
       << UNDER_INSPECTION, APPROVED >> >>

\* the Refund row an earlier attempt left when the gateway timed out
FailedRefund(q) ==
    [ returnRequestID |-> 1, amount |-> FinalUnitPrice * q,
      status |-> "FAILED", failure_reason |-> "Payment processor timeout" ]

RefundRaceInit ==
    /\ purchased \in [ SaleItemIds -> 1..MaxPurchased ]
    /\ \E q \in 1..MaxPurchased :
          /\ q <= purchased[1]
          /\ requests = << ApprovedRequest(q) >>
          /\ refunds \in { << >>, << FailedRefund(q) >> }
    /\ stock = [ p \in Products |-> InitStock ]
    /\ notifications = [ r \in 1..MaxRequests |->
                           IF r = 1 THEN ApprovedHistory ELSE << >> ]
    /\ gatewayRefunds = [ r \in 1..MaxRequests |-> 0 ]
    /\ lastOp = NoOp
    /\ breaker = ClosedBreaker
    /\ clock = 0
    /\ calls = << >>
    /\ flash_sale = NoFlashSale
    /\ reservations = << >>
    /\ sess = [ t \in Sessions |-> Idle ]
    /\ sales = << >>
    /\ locks = {}

Done(success, message) ==
    [ pc |-> "done", success |-> success, message |-> message ]

LockedByOther(row, t) == \E u \in Sessions \ { t } : << row, u >> \in locks
Release(t) == { l \in locks : l[2] # t }

\* the Refund table after session t writes its Refund object
WriteRefund(t, row) ==
    IF sess[t].refundID = 0 THEN Append(refunds, row)
    ELSE [ refunds EXCEPT ![sess[t].refundID] = row ]

\* process_refund, lines 49-74: load the request, check its status, find
\* the payment and the amount
RefundLoad(t, r) ==
    /\ sess[t].pc = "idle"
    /\ r \in 1..Len(requests)
    /\ sess' = [ sess EXCEPT ![t] =
          IF requests[r].status \notin { APPROVED, REFUNDED }
            THEN Done(FALSE, "Return request is not approved")
          ELSE IF requests[r].status = REFUNDED
            THEN Done(TRUE, "Return request already refunded")
          ELSE [ pc |-> "loaded", req |-> r,
                 items |-> requests[r].return_items,
                 amount |-> requested_amount(requests[r].return_items) ] ]
    /\ UNCHANGED << rmaVars, sales, locks >>

\* process_refund, lines 76-92: load return_request.refund, create or reset
\* the Refund object and flush it.  Resetting an existing row is an UPDATE
\* and waits for a transaction that has updated the row.
RefundFlush(t) ==
    /\ sess[t].pc = "loaded"
    /\ LET r == sess[t].req
           existing == RefundOf(refunds, r)
           pending == [ returnRequestID |-> r, amount |-> sess[t].amount,
                        status |-> "PENDING", failure_reason |-> "" ]
       IN  IF existing # 0 /\ refunds[existing].status = "COMPLETED"
             THEN /\ sess' = [ sess EXCEPT ![t] =
                                 Done(TRUE, "Refund already completed") ]
                  /\ locks' = locks
           ELSE /\ existing # 0 => ~LockedByOther(<< "refund", existing >>, t)
                /\ sess' = [ sess EXCEPT ![t] =
                       [ pc |-> "flushed", req |-> r,
                         items |-> sess[t].items, amount |-> sess[t].amount,
                         refundID |-> existing, refund |-> pending ] ]
                /\ locks' = IF existing = 0 THEN locks
                            ELSE locks \cup { << << "refund", existing >>, t >> }
    /\ UNCHANGED << rmaVars, sales >>

\* process_refund, lines 94-97 and 120-134: the gateway call; on failure the
\* Refund is marked FAILED and committed
RefundGateway(t, outcome) ==
    /\ sess[t].pc = "flushed"
    /\ LET r == sess[t].req
           pay == PaymentService_refund(sess[t].amount, outcome)
       IN  IF pay.ok
             THEN /\ gatewayRefunds' = [ gatewayRefunds EXCEPT ![r] = @ + 1 ]
                  /\ sess' = [ sess EXCEPT ![t].pc = "paid" ]
                  /\ UNCHANGED << refunds, locks >>
           ELSE /\ refunds' = WriteRefund(t, mark_failed(sess[t].refund, pay.msg))
                /\ locks' = Release(t)
                /\ sess' = [ sess EXCEPT ![t] = Done(FALSE, pay.msg) ]
                /\ UNCHANGED gatewayRefunds
    /\ UNCHANGED << flashVars, brkVars, purchased, requests, stock, notifications, lastOp, sales >>

\* process_refund, lines 98-102: mark_completed, status = REFUNDED, and
\* apply_return_stock, which loads the products and adds to what it loaded
RefundRestock(t) ==
    /\ sess[t].pc = "paid"
    /\ sess' = [ sess EXCEPT ![t] =
          [ pc |-> "restocked", req |-> sess[t].req,
            refundID |-> sess[t].refundID,
            refund |-> mark_completed(sess[t].refund),
            stock |-> apply_return_stock(stock, sess[t].items) ] ]
    /\ UNCHANGED << rmaVars, sales, locks >>

\* process_refund, line 104: commit writes the request's status, the
\* products' stock and the Refund row; the UPDATE of a product waits for a
\* transaction that holds the product's row lock
RefundCommit(t) ==
    /\ sess[t].pc = "restocked"
    /\ \A p \in Products : ~LockedByOther(<< "product", p >>, t)
    /\ requests' = [ requests EXCEPT ![sess[t].req].status = REFUNDED ]
    /\ stock' = sess[t].stock
    /\ refunds' = WriteRefund(t, sess[t].refund)
    /\ locks' = Release(t)
    /\ sess' = [ sess EXCEPT ![t] = Done(TRUE, "Refund processed successfully") ]
    /\ UNCHANGED << flashVars, brkVars, purchased, notifications, gatewayRefunds, lastOp, sales >>

\* the handler returns; the next request gets a fresh session
RefundReturn(t) ==
    /\ sess[t].pc = "done"
    /\ sess' = [ sess EXCEPT ![t] = Idle ]
    /\ UNCHANGED << rmaVars, sales, locks >>

RefundRaceNext ==
    \/ \E t \in Sessions, r \in RequestIdInputs : RefundLoad(t, r)
    \/ \E t \in Sessions : RefundFlush(t)
    \/ \E t \in Sessions, outcome \in GatewayOutcomes : RefundGateway(t, outcome)
    \/ \E t \in Sessions : RefundRestock(t)
    \/ \E t \in Sessions : RefundCommit(t)
    \/ \E t \in Sessions : RefundReturn(t)

RefundRaceSpec == RefundRaceInit /\ [][RefundRaceNext]_vars

\* C3 (as claimed): whatever the interleaving of process_refund calls on a
\* request, the gateway refunds it successfully at most once, it has at most
\* one Refund row, and its quantities are added to the stock at most once.
C3_RefundAtMostOnce ==
    \A r \in 1..Len(requests) :
        /\ gatewayRefunds[r] <= 1
        /\ Cardinality(RefundRowsOf(refunds, r)) <= 1
        /\ \A p \in Products :
               stock[p] <= InitStock + SumQty(requests[r].return_items, p)

(***************************************************************************)
(* Two request handlers inside ReturnsService.create_return_request at the *)
(* same time, both for the completed sale of the customer and inside the   *)
(* policy window.  _build_return_items reads the committed return items;   *)
(* the new request becomes visible at commit.                              *)
(***************************************************************************)
CreateRaceInit ==
    /\ purchased \in [ SaleItemIds -> 1..MaxPurchased ]
    /\ requests = << >>
    /\ refunds = << >>
    /\ stock = [ p \in Products |-> InitStock ]
    /\ notifications = [ r \in 1..MaxRequests |-> << >> ]
    /\ gatewayRefunds = [ r \in 1..MaxRequests |-> 0 ]
    /\ lastOp = NoOp
    /\ breaker = ClosedBreaker
    /\ clock = 0
    /\ calls = << >>
    /\ flash_sale = NoFlashSale
    /\ reservations = << >>
    /\ sess = [ t \in Sessions |-> Idle ]
    /\ sales = << >>
    /\ locks = {}

InFlight == { t \in Sessions : sess[t].pc = "validated" }

\* create_return_request, lines 62-88: the checks and _build_return_items
CreateValidate(t, items, photos) ==
    /\ sess[t].pc = "idle"
    /\ Len(requests) + Cardinality(InFlight) < MaxRequests
    /\ LET built == build_return_items(requests, TheSale, items)
       IN  sess' = [ sess EXCEPT ![t] =
              IF ~built.ok THEN Done(FALSE, built.msg)
              ELSE [ pc |-> "validated", items |-> built.items,
                     photos |-> photos ] ]
    /\ UNCHANGED << rmaVars, sales, locks >>

\* create_return_request, lines 90-132: add the request with its items and
\* photos, commit, publish the status change
CreateCommit(t) ==
    /\ sess[t].pc = "validated"
    /\ requests' = Append(requests,
          [ status |-> PENDING_AUTHORIZATION, saleID |-> TheSale,
            customerID |-> TheCustomer, return_items |-> sess[t].items,
            photos |-> sess[t].photos, rma_number |-> << >>,
            decision_notes |-> "", shipment |-> "none",
            inspection |-> "none" ])
    /\ notifications' = publish_rma_status_change(notifications,
          Len(requests) + 1, << << "", PENDING_AUTHORIZATION >> >>)
    /\ sess' = [ sess EXCEPT ![t] = Done(TRUE, "Return request submitted") ]
    /\ UNCHANGED << flashVars, brkVars, purchased, refunds, stock, gatewayRefunds, lastOp,
                    sales, locks >>

CreateReturn(t) ==
    /\ sess[t].pc = "done"
    /\ sess' = [ sess EXCEPT ![t] = Idle ]
    /\ UNCHANGED << rmaVars, sales, locks >>

CreateRaceNext ==
    \/ \E t \in Sessions, items \in Payloads, photos \in PhotoInputs :
          CreateValidate(t, items, photos)
    \/ \E t \in Sessions : CreateCommit(t)
    \/ \E t \in Sessions : CreateReturn(t)

CreateRaceSpec == CreateRaceInit /\ [][CreateRaceNext]_vars

\* C9 (as claimed): two create_return_request calls for the same sale item
\* are never both accepted when their quantities together exceed what was
\* returnable: any two requests that are neither REJECTED nor CANCELLED
\* hold together at most the purchased quantity of every sale item.
C9_ConcurrentCreatesWithinRemaining ==
    \A r1, r2 \in 1..Len(requests) :
        (/\ r1 # r2
         /\ requests[r1].status \notin { REJECTED, CANCELLED }
         /\ requests[r2].status \notin { REJECTED, CANCELLED })
        => \A s \in SaleItemIds :
              SumQty(requests[r1].return_items, s)
                + SumQty(requests[r2].return_items, s) <= purchased[s]

(***************************************************************************)
(* Two shoppers in the checkout route of main.py at the same time, each    *)
(* with a cart holding one line of the same product.                       *)
(***************************************************************************)
MaxCartQuantity == 2
\* checkouts of a shopper stop after this many failed payments
MaxFailedPayments == 1
CartProduct == ProductOf(1)

\* card numbers as the digits the form sends
TestVisa == << 4, 1, 1, 1, 1, 1, 1, 1, 1, 1, 1, 1, 1, 1, 1, 1 >>
\* a card with runs of three 1s and no run of four
OtherCard == << 4, 1, 1, 1, 2, 1, 1, 1, 2, 1, 1, 1, 2, 1, 1, 1 >>
ShortCard == << 4, 2, 4, 2 >>
CardNumbers == { TestVisa, OtherCard, ShortCard }

\* what the checkout form and the payment simulator supply: the payment
\* method, the card, and whether random.random() < 0.5 declines
PaymentInputs ==
    [ method : { "Cash", "Card", "Other" }, number : CardNumbers,
      expired : BOOLEAN, decline : BOOLEAN ]

\* 15 <= len(card_number) <= 19
ValidLength(number) == Len(number) >= 15 /\ Len(number) <= 19

\* the issuer rule with "111" in place of "1111"
Has111(number) ==
    \E i \in 1..(Len(number) - 2) : \A k \in 0..2 : number[i + k] = 1

\* "1111" in card_number
Has1111(number) ==
    \E i \in 1..(Len(number) - 3) : \A k \in 0..3 : number[i + k] = 1

\* checkout, lines 660-675: the route's validation of the card form
CardFormValid(pay) ==
    pay.method = "Card" => (ValidLength(pay.number) /\ ~pay.expired)

\* Card.authorized (Payment.authorized for cash; no payment object for
\* another method)
authorized(pay) ==
    IF pay.method = "Cash" THEN [ ok |-> TRUE, reason |-> "Approved" ]
    ELSE IF pay.method # "Card"
      THEN [ ok |-> FALSE, reason |-> "Invalid payment method" ]
    ELSE IF ~ValidLength(pay.number)
      THEN [ ok |-> FALSE,
             reason |-> "Invalid Card Number (must be 15-19 digits)" ]
    ELSE IF pay.expired THEN [ ok |-> FALSE, reason |-> "Card Expired" ]
    ELSE IF Has1111(pay.number)
      THEN [ ok |-> FALSE, reason |-> "Card Declined by issuer" ]
    ELSE [ ok |-> TRUE, reason |-> "Approved" ]

\* checkout, lines 687-695: is_authorized after the simulated processor
is_authorized(pay) == authorized(pay).ok /\ ~pay.decline

\* checkout, lines 831-836: what the enqueue reports, False also when it
\* raises
queue_order_for_retry == BOOLEAN

\* checkout, lines 621-637: the cart Sale as the session flushes it, not
\* yet committed
flush_pending(sale, total_amount) ==
    [ sale EXCEPT !.status = "pending", !.totalAmount = total_amount,
                  !.sale_date = "checkout" ]

\* a rollback that keeps what the session had flushed
rollback_keeps_flush(committed, flushed) == flushed

\* db.rollback(): the session's Sale is the committed row again
rollback(committed, flushed) == committed

\* the session after the payment step
Paid(pc, success, message, pay, queued) ==
    [ pc |-> pc, success |-> success, message |-> message, paid |-> pay,
      queued |-> queued ]

CheckoutInit ==
    /\ purchased \in [ SaleItemIds -> 1..MaxPurchased ]
    /\ requests = << >>
    /\ refunds = << >>
    /\ stock = [ p \in Products |-> InitStock ]
    /\ notifications = [ r \in 1..MaxRequests |-> << >> ]
    /\ gatewayRefunds = [ r \in 1..MaxRequests |-> 0 ]
    /\ lastOp = NoOp
    /\ breaker = ClosedBreaker
    /\ clock = 0
    /\ calls = << >>
    /\ flash_sale = NoFlashSale
    /\ reservations = << >>
    /\ sess = [ t \in Sessions |-> Idle ]
    /\ sales \in [ Sessions -> [ status : { "cart" },
                                 quantity : 1..MaxCartQuantity,
                                 totalAmount : { 0 },
                                 sale_date : { "created" },
                                 payment : { "none" },
                                 queue_entries : { 0 },
                                 failed_logs : { 0 },
                                 snapshots : { << >> } ] ]
    /\ locks = {}

\* checkout, line 575: get_cart_items reads the cart Sale and loads each
\* Product, which puts Product.stock into the session's identity map.  A
\* shopper whose Sale is no longer a cart gets a new, empty cart.
CheckoutReadCart(t) ==
    /\ sess[t].pc = "idle"
    /\ sales[t].failed_logs < MaxFailedPayments
    /\ sess' = [ sess EXCEPT ![t] =
          IF sales[t].status # "cart"
            THEN Done(FALSE, "Cannot complete purchase: Your cart is empty.")
          ELSE [ pc |-> "cart", quantity |-> sales[t].quantity,
                 product_stock |-> stock[CartProduct] ] ]
    /\ UNCHANGED << rmaVars, sales, locks >>

\* checkout, lines 585-596: the throttling check, which changes no state
check_throttling(t, allowed) ==
    /\ sess[t].pc = "cart"
    /\ sess' = [ sess EXCEPT ![t] =
          IF allowed THEN [ sess[t] EXCEPT !.pc = "admitted" ]
          ELSE Done(FALSE, "System is busy. Please try again in a moment.") ]
    /\ UNCHANGED << rmaVars, sales, locks >>

\* checkout, lines 598-637: SELECT ... FOR UPDATE of the cart's products,
\* which waits for the row lock.  The Product objects are already in the
\* identity map and the query does not populate_existing, so they keep the
\* stock that get_cart_items loaded.  Then the stock check (rollback and 409
\* when it fails) and the flush of the Sale as pending.
CheckoutLock(t) ==
    /\ sess[t].pc = "admitted"
    /\ ~LockedByOther(<< "product", CartProduct >>, t)
    /\ IF sess[t].product_stock < sess[t].quantity
         THEN /\ sess' = [ sess EXCEPT ![t] =
                             Done(FALSE, "Checkout failed: stock changed") ]
              /\ locks' = Release(t)
         ELSE /\ sess' = [ sess EXCEPT ![t] =
                     [ pc |-> "pending", quantity |-> sess[t].quantity,
                       product_stock |-> sess[t].product_stock,
                       new_sale |-> flush_pending(sales[t],
                                       FinalUnitPrice * sess[t].quantity) ] ]
              /\ locks' = locks \cup { << << "product", CartProduct >>, t >> }
    /\ UNCHANGED << rmaVars, sales >>

\* checkout, lines 639-887: card validation, authorization, and then
\* either the final stock check, the stock decrement, the SaleItem snapshot
\* and the commit of the completed Sale, or the order queued for retry (the
\* Sale committed as pending), or the Sale and Payment committed as failed
\* with a FailedPaymentLog row.  Without a payment object the failure branch
\* raises AttributeError and the handler rolls back.
CheckoutPay(t, pay, queued) ==
    /\ sess[t].pc = "pending"
    /\ locks' = Release(t)
    /\ LET new_sale == sess[t].new_sale
       IN
       IF ~CardFormValid(pay)
         THEN /\ sess' = [ sess EXCEPT ![t] =
                     Paid("done", FALSE,
                          IF pay.expired /\ ValidLength(pay.number)
                            THEN "Card Expired"
                            ELSE "Invalid Card Number", pay, FALSE) ]
              /\ sales' = [ sales EXCEPT ![t] =
                     [ rollback(sales[t], new_sale) EXCEPT
                         !.status = "cart" ] ]
              /\ UNCHANGED stock
       ELSE IF is_authorized(pay)
         THEN IF sess[t].product_stock < sess[t].quantity
                THEN /\ sess' = [ sess EXCEPT ![t] =
                            Paid("done", FALSE,
                                 "Checkout failed: stock changed", pay, FALSE) ]
                     /\ sales' = [ sales EXCEPT ![t] =
                            [ rollback(sales[t], new_sale) EXCEPT
                                !.status = "cart" ] ]
                     /\ UNCHANGED stock
              ELSE /\ sales' = [ sales EXCEPT ![t] =
                          [ new_sale EXCEPT !.status = "completed",
                                     !.payment = "completed",
                                     !.snapshots = << FinalUnitPrice
                                                        * sess[t].quantity >> ] ]
                   /\ stock' = [ stock EXCEPT ![CartProduct] =
                          sess[t].product_stock - sess[t].quantity ]
                   /\ sess' = [ sess EXCEPT ![t] =
                          Paid("done", TRUE, "receipt", pay, FALSE) ]
       ELSE IF queued
         THEN /\ sales' = [ sales EXCEPT ![t] =
                     [ new_sale EXCEPT !.status = "pending",
                                !.queue_entries = @ + 1,
                                !.payment = IF pay.method = "Other"
                                              THEN "none" ELSE "pending" ] ]
              /\ sess' = [ sess EXCEPT ![t] =
                     Paid("done", TRUE, "Your order has been queued for retry",
                          pay, TRUE) ]
              /\ UNCHANGED stock
       ELSE IF pay.method = "Other"
         THEN /\ sess' = [ sess EXCEPT ![t] =
                     Paid("done", FALSE, "Checkout error", pay, FALSE) ]
              /\ sales' = [ sales EXCEPT ![t] = rollback(sales[t], new_sale) ]
              /\ UNCHANGED stock
       ELSE /\ sales' = [ sales EXCEPT ![t] =
                   [ new_sale EXCEPT !.status = "failed", !.payment = "failed",
                              !.failed_logs = @ + 1 ] ]
            /\ sess' = [ sess EXCEPT ![t] =
                   Paid("failed", FALSE, "Payment failed", pay, FALSE) ]
            /\ UNCHANGED stock
    /\ UNCHANGED << flashVars, brkVars, purchased, requests, refunds, notifications,
                    gatewayRefunds, lastOp >>

\* checkout, lines 889-890: the failed Sale is put back in the cart in a
\* second commit
CheckoutRevert(t) ==
    /\ sess[t].pc = "failed"
    /\ sales' = [ sales EXCEPT ![t].status = "cart" ]
    /\ sess' = [ sess EXCEPT ![t].pc = "done" ]
    /\ UNCHANGED << rmaVars, locks >>

CheckoutReturn(t) ==
    /\ sess[t].pc = "done"
    /\ sess' = [ sess EXCEPT ![t] = Idle ]
    /\ UNCHANGED << rmaVars, sales, locks >>

CheckoutNext ==
    \/ \E t \in Sessions : CheckoutReadCart(t)
    \/ \E t \in Sessions, allowed \in BOOLEAN : check_throttling(t, allowed)
    \/ \E t \in Sessions : CheckoutLock(t)
    \/ \E t \in Sessions, pay \in PaymentInputs,
          queued \in queue_order_for_retry :
          CheckoutPay(t, pay, queued)
    \/ \E t \in Sessions : CheckoutRevert(t)
    \/ \E t \in Sessions : CheckoutReturn(t)

CheckoutSpec == CheckoutInit /\ [][CheckoutNext]_vars

\* units of the product sold by completed sales
RECURSIVE UnitsSold(_)
UnitsSold(S) ==
    IF S = {} THEN 0
    ELSE LET t == CHOOSE x \in S : TRUE
         IN  (IF sales[t].status = "completed" THEN sales[t].quantity ELSE 0)
             + UnitsSold(S \ { t })

StoredRequest(status) ==
    [ status |-> status, saleID |-> TheSale, customerID |-> TheCustomer,
      return_items |-> << [ saleItemID |-> 1, quantity |-> 1 ] >>,
      photos |-> 1, rma_number |-> << >>, decision_notes |-> "",
      shipment |-> "none", inspection |-> "none" ]

StoredInit ==
    /\ purchased \in [ SaleItemIds -> 1..MaxPurchased ]
    /\ \E status \in { PENDING_CUSTOMER_INFO, PENDING_AUTHORIZATION,
                         CANCELLED } :
          /\ requests = << StoredRequest(status) >>
          /\ notifications = [ r \in 1..MaxRequests |->
                IF r = 1 THEN << << "", status >> >> ELSE << >> ]
    /\ refunds = << >>
    /\ stock = [ p \in Products |-> InitStock ]
    /\ gatewayRefunds = [ r \in 1..MaxRequests |-> 0 ]
    /\ lastOp = NoOp
    /\ breaker = ClosedBreaker
    /\ clock = 0
    /\ calls = << >>
    /\ flash_sale = NoFlashSale
    /\ reservations = << >>
    /\ sess = [ t \in Sessions |-> Idle ]
    /\ sales = << >>
    /\ locks = {}

\* the calls on stored requests: every service call but the creation of
\* further requests
StoredNext ==
    \/ \E r \in RequestIdInputs, approve \in BOOLEAN,
          decision_notes \in NotesInputs, date \in DateInputs :
          AuthorizeReturn(r, approve, decision_notes, date)
    \/ \E r \in RequestIdInputs : RecordShipment(r)
    \/ \E r \in RequestIdInputs : MarkReceived(r)
    \/ \E r \in RequestIdInputs, result \in ResultInputs :
          RecordInspection(r, result)
    \/ \E r \in RequestIdInputs, amount_override \in AmountOverrides,
          outcome \in GatewayOutcomes :
          ProcessRefund(r, amount_override, outcome)

StoredSpec == StoredInit /\ [][StoredNext]_vars

WindowExpired == "Return window has expired for this sale"

\* C12: a create_return_request call made more than RETURN_WINDOW_DAYS
\* whole days after the sale fails and creates no request, item or photo
\* record; a call made at most RETURN_WINDOW_DAYS days after the sale,
\* the last day included, is never refused for the window; so a call is
\* accepted only inside the window, and on an eligible sale with valid items
\* exactly then.
C12_PolicyWindowInclusive ==
    [][ lastOp'.op = "create_return_request"
        => LET days == lastOp'.input[1] IN
           /\ days > RETURN_WINDOW_DAYS
                => /\ ~lastOp'.ok
                   /\ requests' = requests
                   /\ notifications' = notifications
           /\ (days > RETURN_WINDOW_DAYS
                 /\ lastOp'.msg # "Sale not found or not eligible for return")
                => lastOp'.msg = WindowExpired
           /\ days <= RETURN_WINDOW_DAYS => lastOp'.msg # WindowExpired
           /\ lastOp'.ok
                => /\ days <= RETURN_WINDOW_DAYS
                   /\ Len(requests') = Len(requests) + 1 ]_rmaVars

\* C12 witness: a request made on the last day of the window was accepted
C12_Witness ==
    /\ lastOp.op = "create_return_request"
    /\ lastOp.ok
    /\ lastOp.input = << RETURN_WINDOW_DAYS >>
    /\ Len(requests) >= 1

(***************************************************************************)
(* Properties of the payment step of the checkout                          *)
(***************************************************************************)
\* session t leaves the payment step of its checkout in this step
PaysNow(t) == sess[t].pc = "pending" /\ sess'[t].pc \in { "done", "failed" }

\* C13 (as claimed): when the payment of a checkout is not authorized, a
\* successful enqueue leaves the Sale pending, never failed, with no stock
\* decremented; a failed enqueue marks the Sale failed and writes a
\* FailedPaymentLog row, and the Sale is then back in the cart with its
\* items, still with no stock decremented.
C13_DeclinedPaymentQueuedOrReverted ==
    [][ \A t \in Sessions :
          /\ (PaysNow(t) /\ CardFormValid(sess'[t].paid)
                /\ ~is_authorized(sess'[t].paid))
             => /\ stock' = stock
                /\ IF sess'[t].queued
                     THEN /\ sales'[t].status = "pending"
                          /\ sales'[t].failed_logs = sales[t].failed_logs
                     ELSE /\ sess'[t].pc = "failed"
                          /\ sales'[t].status = "failed"
                          /\ sales'[t].failed_logs = sales[t].failed_logs + 1
          /\ (sess[t].pc = "failed" /\ sess'[t].pc # "failed")
             => /\ sales'[t].status = "cart"
                /\ sales'[t].quantity = sales[t].quantity
                /\ stock' = stock ]_vars

MaxSales == 3

\* what a request of the customer does
CartOps == { "read", "add", "checkout" }

\* how the payment step of a checkout ends
CartOutcomes ==
    { "invalid_card", "conflict", "completed", "queued", "failed", "error" }

\* the rows filter(Sale._status == 'cart') selects
CartSales == { i \in DOMAIN sales : sales[i].status = "cart" }

\* .first() of that query
FirstCart == CHOOSE i \in CartSales : \A j \in CartSales : i <= j

CartInit ==
    /\ purchased \in [ SaleItemIds -> 1..MaxPurchased ]
    /\ requests = << >>
    /\ refunds = << >>
    /\ stock = [ p \in Products |-> InitStock ]
    /\ notifications = [ r \in 1..MaxRequests |-> << >> ]
    /\ gatewayRefunds = [ r \in 1..MaxRequests |-> 0 ]
    /\ lastOp = NoOp
    /\ breaker = ClosedBreaker
    /\ clock = 0
    /\ calls = << >>
    /\ flash_sale = NoFlashSale
    /\ reservations = << >>
    /\ sess = [ t \in Sessions |-> Idle ]
    /\ sales = << >>
    /\ locks = {}

\* get_or_create_cart_sale, line 179: the query for the customer's cart
get_or_create_cart_sale(t, op) ==
    /\ sess[t].pc = "idle"
    /\ Len(sales) < MaxSales
    /\ sess' = [ sess EXCEPT ![t] =
          IF CartSales = {} THEN [ pc |-> "create", op |-> op ]
          ELSE [ pc |-> "have", op |-> op, sale |-> FirstCart ] ]
    /\ UNCHANGED << rmaVars, sales, locks >>

\* get_or_create_cart_sale, lines 180-188: no cart was found, so a new one
\* is added and committed
create_cart_sale(t) ==
    /\ sess[t].pc = "create"
    /\ Len(sales) < MaxSales
    /\ sales' = Append(sales, [ status |-> "cart", quantity |-> 0 ])
    /\ sess' = [ sess EXCEPT ![t] =
          [ pc |-> "have", op |-> sess[t].op, sale |-> Len(sales) + 1 ] ]
    /\ UNCHANGED << rmaVars, locks >>

\* get_cart_items for a page that shows the cart
CartRead(t) ==
    /\ sess[t].pc = "have"
    /\ sess[t].op = "read"
    /\ sess' = [ sess EXCEPT ![t] = Idle ]
    /\ UNCHANGED << rmaVars, sales, locks >>

\* add_item_to_cart, lines 286-311: one more unit on the line of the Sale
\* that get_or_create_cart_sale returned
add_item_to_cart(t) ==
    /\ sess[t].pc = "have"
    /\ sess[t].op = "add"
    /\ sales[sess[t].sale].quantity < MaxCartQuantity
    /\ sales' = [ sales EXCEPT ![sess[t].sale].quantity = @ + 1 ]
    /\ sess' = [ sess EXCEPT ![t] = Idle ]
    /\ UNCHANGED << rmaVars, locks >>

\* checkout, lines 575-637: an empty cart is refused; otherwise the cart
\* Sale is looked up again and flushed as pending, which locks its row
\* until the request commits or rolls back; without a cart Sale a new
\* pending Sale is added to the session
CartPromote(t) ==
    /\ sess[t].pc = "have"
    /\ sess[t].op = "checkout"
    /\ IF sales[sess[t].sale].quantity = 0
         THEN /\ sess' = [ sess EXCEPT ![t] = Idle ]
              /\ UNCHANGED locks
       ELSE IF CartSales = {}
         THEN /\ sess' = [ sess EXCEPT ![t] =
                     [ pc |-> "pending", new_sale |-> 0,
                       quantity |-> sales[sess[t].sale].quantity ] ]
              /\ UNCHANGED locks
       ELSE /\ ~LockedByOther(<< "sale", FirstCart >>, t)
            /\ sess' = [ sess EXCEPT ![t] =
                   [ pc |-> "pending", new_sale |-> FirstCart,
                     quantity |-> sales[sess[t].sale].quantity ] ]
            /\ locks' = locks \cup { << << "sale", FirstCart >>, t >> }
    /\ UNCHANGED << rmaVars, sales >>

\* the row of the session's new_sale committed with this status; a Sale
\* that was only added to the session is inserted
CommitSale(t, status) ==
    IF sess[t].new_sale = 0
      THEN Append(sales, [ status |-> status, quantity |-> sess[t].quantity ])
    ELSE [ sales EXCEPT ![sess[t].new_sale].status = status ]

\* checkout, lines 639-890: how the payment step leaves the Sale.  A card
\* form error or a stock conflict rolls back and commits the Sale as a cart;
\* an authorized payment commits it completed; a queued order commits it
\* pending; a failed payment commits it failed; an exception rolls back.
CartSettle(t, outcome) ==
    /\ sess[t].pc = "pending"
    /\ sess[t].new_sale = 0 /\ outcome \in { "completed", "queued", "failed" }
          => Len(sales) < MaxSales
    /\ locks' = Release(t)
    /\ sales' =
          CASE outcome \in { "invalid_card", "conflict" } ->
                   IF sess[t].new_sale = 0 THEN sales
                   ELSE CommitSale(t, "cart")
            [] outcome = "completed" -> CommitSale(t, "completed")
            [] outcome = "queued" -> CommitSale(t, "pending")
            [] outcome = "failed" -> CommitSale(t, "failed")
            [] OTHER -> sales
    /\ sess' = [ sess EXCEPT ![t] =
          IF outcome = "failed"
            THEN [ pc |-> "failed",
                   new_sale |-> IF sess[t].new_sale = 0 THEN Len(sales) + 1
                                ELSE sess[t].new_sale ]
          ELSE Idle ]
    /\ UNCHANGED rmaVars

\* checkout, lines 889-890: the failed Sale committed as a cart again
CartRevert(t) ==
    /\ sess[t].pc = "failed"
    /\ sales' = [ sales EXCEPT ![sess[t].new_sale].status = "cart" ]
    /\ sess' = [ sess EXCEPT ![t] = Idle ]
    /\ UNCHANGED << rmaVars, locks >>

CartNext ==
    \/ \E t \in Sessions, op \in CartOps : get_or_create_cart_sale(t, op)
    \/ \E t \in Sessions : create_cart_sale(t)
    \/ \E t \in Sessions : CartRead(t)
    \/ \E t \in Sessions : add_item_to_cart(t)
    \/ \E t \in Sessions : CartPromote(t)
    \/ \E t \in Sessions, outcome \in CartOutcomes : CartSettle(t, outcome)
    \/ \E t \in Sessions : CartRevert(t)

CartSpec == CartInit /\ [][CartNext]_vars

\* C15 (as claimed): in every reachable state, concurrent requests of the
\* same customer included, the customer has at most one Sale with status
\* cart.
C15_AtMostOneCart == Cardinality(CartSales) <= 1

(***************************************************************************)
(* The circuit breaker of the payment service                              *)
(*                                                                         *)
(* Threads call execute(operation) on the breaker of one service name.     *)
(* The state read and transition at the start of a call, and the recording *)
(* of the operation's outcome at its end, each run under the breaker's     *)
(* mutual-exclusion guard and are one step each; the operation itself runs *)
(* between them, outside the guard.                                        *)
(***************************************************************************)
\* operations run through the breaker before the exploration stops
MaxCalls == 4
\* the clock stops here
MaxClock == 4

Unavailable == "service temporarily unavailable"

\* what execute decides at its start: run the operation as a normal call,
\* run it as the half-open trial call, or short-circuit
allow_request_unguarded(b, now) ==
    IF b.state = "closed" THEN "call"
    ELSE IF b.state = "half_open" \/ now >= b.next_attempt_time THEN "trial"
    ELSE "reject"

allow_request(b, now) ==
    IF b.state = "closed" THEN "call"
    ELSE IF b.state = "open" /\ now >= b.next_attempt_time THEN "trial"
    ELSE "reject"

\* the breaker after an operation succeeded, without the count reset
record_success_keeps_count(b, kind) ==
    IF kind = "trial" \/ b.state = "closed"
      THEN [ b EXCEPT !.state = "closed" ]
    ELSE b

\* the breaker after an operation succeeded: the trial call closes it, and
\* a success resets the failure count
record_success(b, kind) ==
    IF kind = "trial" \/ b.state = "closed"
      THEN [ b EXCEPT !.state = "closed", !.failure_count = 0 ]
    ELSE b

\* the breaker after an operation failed, opening only above the threshold
record_failure_above_threshold(b, kind, now) ==
    IF kind = "trial"
      THEN [ b EXCEPT !.state = "open",
                      !.next_attempt_time = now + timeout_duration ]
    ELSE IF b.state # "closed" THEN b
    ELSE IF b.failure_count + 1 > failure_threshold
      THEN [ b EXCEPT !.state = "open", !.failure_count = @ + 1,
                      !.next_attempt_time = now + timeout_duration ]
    ELSE [ b EXCEPT !.failure_count = @ + 1 ]

\* the breaker after an operation failed: a failed trial call re-opens it
\* and restarts the timeout; a failed normal call is counted and opens the
\* breaker when the count reaches the threshold
record_failure(b, kind, now) ==
    IF kind = "trial"
      THEN [ b EXCEPT !.state = "open",
                      !.next_attempt_time = now + timeout_duration ]
    ELSE IF b.state # "closed" THEN b
    ELSE IF b.failure_count + 1 >= failure_threshold
      THEN [ b EXCEPT !.state = "open", !.failure_count = @ + 1,
                      !.next_attempt_time = now + timeout_duration ]
    ELSE [ b EXCEPT !.failure_count = @ + 1 ]

\* threads inside the wrapped operation
Calling == { t \in Sessions : sess[t].pc = "call" }

BreakerInit ==
    /\ purchased \in [ SaleItemIds -> 1..MaxPurchased ]
    /\ requests = << >>
    /\ refunds = << >>
    /\ stock = [ p \in Products |-> InitStock ]
    /\ notifications = [ r \in 1..MaxRequests |-> << >> ]
    /\ gatewayRefunds = [ r \in 1..MaxRequests |-> 0 ]
    /\ lastOp = NoOp
    /\ breaker = ClosedBreaker
    /\ clock = 0
    /\ calls = << >>
    /\ flash_sale = NoFlashSale
    /\ reservations = << >>
    /\ sess = [ t \in Sessions |-> Idle ]
    /\ sales = << >>
    /\ locks = {}

\* execute, start of a call: short-circuit, or let the operation run
execute(t) ==
    /\ sess[t].pc = "idle"
    /\ Len(calls) + Cardinality(Calling) < MaxCalls
    /\ LET kind == allow_request(breaker, clock)
       IN  IF kind = "reject"
             THEN /\ sess' = [ sess EXCEPT ![t] =
                         [ pc |-> "done", success |-> FALSE,
                           message |-> Unavailable, kind |-> kind ] ]
                  /\ UNCHANGED breaker
           ELSE /\ sess' = [ sess EXCEPT ![t] =
                       [ pc |-> "call", kind |-> kind ] ]
                /\ breaker' = IF kind = "trial"
                                THEN [ breaker EXCEPT !.state = "half_open" ]
                              ELSE breaker
    /\ UNCHANGED << flashVars, purchased, requests, refunds, stock, notifications,
                    gatewayRefunds, lastOp, clock, calls, sales, locks >>

\* execute, end of a call: the operation returned (ok) or raised
execute_result(t, ok) ==
    /\ sess[t].pc = "call"
    /\ calls' = Append(calls, ok)
    /\ breaker' = IF ok THEN record_success(breaker, sess[t].kind)
                  ELSE record_failure(breaker, sess[t].kind, clock)
    /\ sess' = [ sess EXCEPT ![t] =
          [ pc |-> "done", success |-> ok,
            message |-> IF ok THEN "result" ELSE "error",
            kind |-> sess[t].kind ] ]
    /\ UNCHANGED << flashVars, purchased, requests, refunds, stock, notifications,
                    gatewayRefunds, lastOp, clock, sales, locks >>

\* execute returns to its caller
BreakerReturn(t) ==
    /\ sess[t].pc = "done"
    /\ sess' = [ sess EXCEPT ![t] = Idle ]
    /\ UNCHANGED << rmaVars, sales, locks >>

\* time passes
Tick ==
    /\ clock < MaxClock
    /\ clock' = clock + 1
    /\ UNCHANGED << flashVars, purchased, requests, refunds, stock, notifications,
                    gatewayRefunds, lastOp, breaker, calls, concVars >>

BreakerNext ==
    \/ \E t \in Sessions : execute(t)
    \/ \E t \in Sessions, ok \in BOOLEAN : execute_result(t, ok)
    \/ \E t \in Sessions : BreakerReturn(t)
    \/ Tick

BreakerSpec == BreakerInit /\ [][BreakerNext]_vars

\* the failed calls since the last successful one
RECURSIVE TrailingFailures(_)
TrailingFailures(log) ==
    IF log = << >> \/ log[Len(log)] THEN 0
    ELSE 1 + TrailingFailures(SubSeq(log, 1, Len(log) - 1))

\* thread t starts a call of execute in this step
Enters(t) == sess[t].pc = "idle" /\ sess'[t].pc # "idle"

\* thread t was short-circuited: (False, "service temporarily
\* unavailable"), the operation not invoked
ShortCircuited(t) ==
    /\ sess'[t].pc = "done"
    /\ ~sess'[t].success
    /\ sess'[t].message = Unavailable
    /\ calls' = calls

\* C16: after failure_threshold consecutive failed calls the breaker is
\* open (it leaves open only for the half-open trial once the timeout has
\* elapsed), and every call made while it is open and the timeout has not
\* elapsed returns (False, "service temporarily unavailable") without
\* invoking the operation.
C16_OpenShortCircuits ==
    [][ /\ TrailingFailures(calls') >= failure_threshold
           => /\ breaker'.state \in { "open", "half_open" }
              /\ breaker'.state = "half_open"
                    => clock' >= breaker'.next_attempt_time
        /\ \A t \in Sessions :
              (/\ Enters(t)
               /\ breaker.state = "open"
               /\ clock < breaker.next_attempt_time)
              => /\ ShortCircuited(t)
                 /\ breaker' = breaker ]_vars

\* a call was short-circuited by the breaker that the threshold opened
C16_Witness ==
    \E t \in Sessions :
        /\ sess[t].pc = "done"
        /\ sess[t].kind = "reject"
        /\ sess[t].message = Unavailable
        /\ breaker.state = "open"
        /\ clock < breaker.next_attempt_time
        /\ TrailingFailures(calls) = failure_threshold

\* C17: once the timeout has elapsed on an open breaker the next call is
\* let through as the half-open trial; when the trial succeeds the breaker
\* is closed with failure count 0, and when it fails the breaker is open
\* and the timeout runs again from that failure.
C17_HalfOpenProbe ==
    [][ \A t \in Sessions :
          /\ (/\ Enters(t)
              /\ breaker.state = "open"
              /\ clock >= breaker.next_attempt_time)
             => /\ sess'[t].pc = "call"
                /\ sess'[t].kind = "trial"
                /\ breaker'.state = "half_open"
                /\ calls' = calls
          /\ (/\ sess[t].pc = "call"
              /\ sess[t].kind = "trial"
              /\ sess'[t].pc = "done")
             => IF sess'[t].success
                  THEN /\ breaker'.state = "closed"
                       /\ breaker'.failure_count = 0
                ELSE /\ breaker'.state = "open"
                     /\ breaker'.next_attempt_time = clock + timeout_duration
                     /\ breaker'.next_attempt_time > clock ]_vars

\* a trial call succeeded on a breaker that the threshold had opened, and
\* the breaker is closed with no failure counted
C17_Witness ==
    \E t \in Sessions :
        /\ sess[t].pc = "done"
        /\ sess[t].kind = "trial"
        /\ sess[t].success
        /\ breaker.state = "closed"
        /\ breaker.failure_count = 0
        /\ Len(calls) > failure_threshold

\* threads running the operation as the trial call
Trials == { t \in Calling : sess[t].kind = "trial" }

\* C19: of the threads that call the breaker while it is half_open, or open
\* with the timeout elapsed, at most one runs the operation as the trial
\* call; a thread that finds the breaker half_open is short-circuited.
C19_OneTrialCall ==
    [][ /\ Cardinality(Trials') <= 1
        /\ \A t \in Sessions :
              (Enters(t) /\ breaker.state = "half_open")
              => /\ ShortCircuited(t)
                 /\ breaker' = breaker ]_vars

\* one thread runs the trial call while the other was short-circuited
C19_Witness ==
    \E t, u \in Sessions :
        /\ breaker.state = "half_open"
        /\ sess[t].pc = "call"
        /\ sess[t].kind = "trial"
        /\ sess[u].pc = "done"
        /\ sess[u].kind = "reject"
        /\ sess[u].message = Unavailable

\* how far along the lifecycle a status is (no status, before creation,
\* ranks lowest): every edge of the table, and the refund's APPROVED to
\* REFUNDED, leads to a higher rank
Rank(status) ==
    CASE status = PENDING_CUSTOMER_INFO -> 0
      [] status = PENDING_AUTHORIZATION -> 1
      [] status = AUTHORIZED -> 2
      [] status = IN_TRANSIT -> 3
      [] status = RECEIVED -> 4
      [] status = UNDER_INSPECTION -> 5
      [] status = APPROVED -> 6
      [] status = REJECTED -> 7
      [] status = REFUNDED -> 8
      [] status = CANCELLED -> 9
      [] OTHER -> -1

\* C18: the lifecycle has no cycles.  Every status change of a return
\* request, the changes inside one call included, leads to a status of
\* higher rank, so a request never re-enters a status it has left and
\* changes status at most nine times; a REFUNDED or CANCELLED request never
\* changes status.
C18_LifecycleAcyclic ==
    [][ /\ \A r \in 1..Len(requests) :
              requests'[r].status # requests[r].status
              => /\ Rank(requests'[r].status) > Rank(requests[r].status)
                 /\ requests[r].status \notin { REFUNDED, CANCELLED }
        /\ \A k \in 1..Len(lastOp'.trans) :
              /\ Rank(lastOp'.trans[k][2]) > Rank(lastOp'.trans[k][1])
              /\ lastOp'.trans[k][1] \notin { REFUNDED, CANCELLED } ]_rmaVars

\* a request went the whole way to REFUNDED and a later call on it, other
\* than a refund, has been refused
C18_Witness ==
    /\ lastOp.req \in 1..Len(requests)
    /\ requests[lastOp.req].status = REFUNDED
    /\ lastOp.op \in { "authorize_return", "record_shipment", "mark_received",
                       "record_inspection" }
    /\ ~lastOp.ok

\* C20: record_inspection is accepted only from RECEIVED or
\* UNDER_INSPECTION.  From RECEIVED the request first advances to
\* UNDER_INSPECTION; a result of APPROVED or PARTIALLY_APPROVED leaves it
\* APPROVED and a result of REJECTED leaves it REJECTED, the result stored
\* in the Inspection record.  From any other status the call fails and
\* changes neither the status nor the Inspection record.
C20_InspectionFromReceivedOnly ==
    [][ \A r \in 1..Len(requests) :
          IsCall("record_inspection", r)
          => LET result == lastOp'.input[1]
             IN  IF requests[r].status \in { RECEIVED, UNDER_INSPECTION }
                   THEN /\ result \in { "APPROVED", "PARTIALLY_APPROVED" }
                           => /\ lastOp'.ok
                              /\ requests'[r].status = APPROVED
                              /\ requests'[r].inspection = result
                        /\ result = "REJECTED"
                           => /\ lastOp'.ok
                              /\ requests'[r].status = REJECTED
                              /\ requests'[r].inspection = result
                        /\ (lastOp'.ok /\ requests[r].status = RECEIVED)
                           => lastOp'.trans[1]
                                = << RECEIVED, UNDER_INSPECTION >>
                        /\ (lastOp'.ok /\ requests[r].status = UNDER_INSPECTION)
                           => \A k \in 1..Len(lastOp'.trans) :
                                 lastOp'.trans[k][1] = UNDER_INSPECTION
                 ELSE /\ ~lastOp'.ok
                      /\ requests' = requests ]_rmaVars

\* an inspection of a RECEIVED request was recorded with result APPROVED:
\* the request advanced to UNDER_INSPECTION and then to APPROVED
C20_Witness ==
    /\ lastOp.op = "record_inspection"
    /\ lastOp.ok
    /\ lastOp.input = << "APPROVED" >>
    /\ lastOp.trans = << << RECEIVED, UNDER_INSPECTION >>,
                         << UNDER_INSPECTION, APPROVED >> >>
    /\ requests[lastOp.req].status = APPROVED
    /\ requests[lastOp.req].inspection = "APPROVED"

(***************************************************************************)
(* Properties of the records attached to a return request                  *)
(***************************************************************************)
\* C21: a return request has no RMA number until authorize_return approves
\* it; the approval assigns the number, no later step changes it, and no
\* two return requests carry the same number.
C21_RmaNumberOnceAndUnique ==
    [][ /\ \A r \in 1..Len(requests') :
              /\ requests'[r].status = PENDING_AUTHORIZATION
                 => requests'[r].rma_number = << >>
              /\ (r \in 1..Len(requests) /\ requests[r].rma_number # << >>)
                 => requests'[r].rma_number = requests[r].rma_number
              /\ (r \in 1..Len(requests) /\ requests[r].rma_number = << >>
                    /\ requests'[r].rma_number # << >>)
                 => /\ IsCall("authorize_return", r)
                    /\ lastOp'.ok
                    /\ lastOp'.input[1]
              /\ (IsCall("authorize_return", r) /\ lastOp'.ok
                    /\ lastOp'.input[1])
                 => requests'[r].rma_number # << >>
              /\ r \notin 1..Len(requests) => requests'[r].rma_number = << >>
        /\ \A r1, r2 \in 1..Len(requests') :
              (r1 # r2 /\ requests'[r1].rma_number # << >>)
              => requests'[r1].rma_number # requests'[r2].rma_number ]_rmaVars

\* two authorized requests, each with its RMA number, one of them already
\* moved on
C21_Witness ==
    /\ Len(requests) >= 2
    /\ requests[1].rma_number # << >>
    /\ requests[2].rma_number # << >>
    /\ requests[1].status \notin { PENDING_AUTHORIZATION, AUTHORIZED }

\* C22: a checkout whose card details fail validation ends with the
\* customer's Sale in cart status with its items, total and date as before,
\* no Payment row and no order-queue entry added (the Sale's payment is the
\* one an earlier attempt left, if any) and no stock changed.
C22_InvalidCardLeavesCart ==
    [][ \A t \in Sessions :
          (PaysNow(t) /\ ~CardFormValid(sess'[t].paid))
          => /\ sales'[t].status = "cart"
             /\ sales'[t].quantity = sales[t].quantity
             /\ sales'[t].totalAmount = sales[t].totalAmount
             /\ sales'[t].sale_date = sales[t].sale_date
             /\ sales'[t].payment = sales[t].payment
             /\ sales'[t].failed_logs = sales[t].failed_logs
             /\ sales'[t].queue_entries = sales[t].queue_entries
             /\ sales'[t].snapshots = sales[t].snapshots
             /\ stock' = stock
             /\ ~sess'[t].success ]_vars

\* a checkout was refused for its card details after its Sale had been
\* flushed as pending with a new total and date
C22_Witness ==
    \E t \in Sessions :
        /\ sess[t].pc = "done"
        /\ sess[t].message \in { "Card Expired", "Invalid Card Number" }
        /\ ~CardFormValid(sess[t].paid)
        /\ sales[t].status = "cart"
        /\ sales[t].totalAmount = 0
        /\ sales[t].sale_date = "created"

\* statuses of a request whose shipment has been recorded
ShippedStatuses ==
    { IN_TRANSIT, RECEIVED, UNDER_INSPECTION, APPROVED, REJECTED, REFUNDED }

\* statuses of a request whose inspection has been recorded
InspectedStatuses == { UNDER_INSPECTION, APPROVED, REJECTED, REFUNDED }

\* C23 (as claimed): each return request has at most one ReturnShipment,
\* one Inspection and one Refund record; it has a shipment only when it is
\* IN_TRANSIT or later, an inspection only after an inspection was
\* recorded, and a Refund only when process_refund found it APPROVED.
C23_OneSatellitePerStage ==
    \A r \in 1..Len(requests) :
        /\ Cardinality(RefundRowsOf(refunds, r)) <= 1
        /\ requests[r].shipment # "none"
           => requests[r].status \in ShippedStatuses
        /\ requests[r].inspection # "none"
           => requests[r].status \in InspectedStatuses
        /\ RefundRowsOf(refunds, r) # {}
           => requests[r].status \in { APPROVED, REFUNDED }

\* the entries of a request's items that name sale item s
EntriesOf(items, s) == { k \in 1..Len(items) : items[k].saleItemID = s }

\* C24 (as claimed): a create_return_request call whose items list names a
\* sale item more than once is accepted only if the quantities of those
\* entries together are at most the item's remaining returnable quantity.
C24_RepeatedItemWithinRemaining ==
    [][ (/\ lastOp'.op = "create_return_request"
         /\ lastOp'.ok
         /\ Len(requests') = Len(requests) + 1)
        => LET items == requests'[Len(requests')].return_items
           IN  \A s \in SaleItemIds :
                   Cardinality(EntriesOf(items, s)) > 1
                   => SumQty(items, s)
                        <= purchased[s] - reserved_quantity(requests, s)
      ]_rmaVars

RECURSIVE CompletedRefundTotal(_)
\* sum of Refund.amount over the COMPLETED Refund rows
CompletedRefundTotal(rfs) ==
    IF rfs = << >> THEN 0
    ELSE (IF Head(rfs).status = "COMPLETED" THEN Head(rfs).amount ELSE 0)
         + CompletedRefundTotal(Tail(rfs))

\* every Refund row carries the calculated amount of its request, which is
\* what process_refund stores when amount_override is not given
NoOverrideInRefunds ==
    \A k \in 1..Len(refunds) :
        /\ refunds[k].returnRequestID \in 1..Len(requests)
        /\ refunds[k].amount =
               requested_amount(requests[refunds[k].returnRequestID].return_items)

\* C25 (as claimed): when no amount override is used, the COMPLETED Refunds
\* of the return requests of one sale never add up to more than the amount
\* of the sale's payment.
C25_RefundsWithinPayment ==
    NoOverrideInRefunds => CompletedRefundTotal(refunds) <= PaymentAmount

\* C26: a return request is REFUNDED exactly when it has a COMPLETED Refund,
\* and an APPROVED request has no Refund or a FAILED one.
C26_RefundedIffCompletedRefund ==
    \A r \in 1..Len(requests) :
        /\ requests[r].status = REFUNDED
             <=> (\E k \in RefundRowsOf(refunds, r) :
                      refunds[k].status = "COMPLETED")
        /\ requests[r].status = APPROVED
             => \A k \in RefundRowsOf(refunds, r) :
                    refunds[k].status = "FAILED"

\* one request refunded and another left APPROVED by a failed refund
C26_Witness ==
    /\ lastOp.op = "process_refund"
    /\ \E r \in 1..Len(requests) :
          /\ requests[r].status = REFUNDED
          /\ \E k \in RefundRowsOf(refunds, r) : refunds[k].status = "COMPLETED"
    /\ \E r \in 1..Len(requests) :
          /\ requests[r].status = APPROVED
          /\ \E k \in RefundRowsOf(refunds, r) : refunds[k].status = "FAILED"

(***************************************************************************)
(* A refund restock and a checkout of the same product in two request      *)
(* sessions.                                                               *)
(***************************************************************************)
RefundSession == "A"
CheckoutSession == "B"

StockRaceInit ==
    /\ purchased \in [ SaleItemIds -> 1..MaxPurchased ]
    /\ \E q \in 1..MaxPurchased :
          /\ q <= purchased[1]
          /\ requests = << ApprovedRequest(q) >>
          /\ refunds \in { << >>, << FailedRefund(q) >> }
    /\ stock = [ p \in Products |-> InitStock ]
    /\ notifications = [ r \in 1..MaxRequests |->
                           IF r = 1 THEN ApprovedHistory ELSE << >> ]
    /\ gatewayRefunds = [ r \in 1..MaxRequests |-> 0 ]
    /\ lastOp = NoOp
    /\ breaker = ClosedBreaker
    /\ clock = 0
    /\ calls = << >>
    /\ flash_sale = NoFlashSale
    /\ reservations = << >>
    /\ sess = [ t \in Sessions |-> Idle ]
    /\ sales \in [ Sessions -> [ status : { "cart" },
                                 quantity : 1..MaxCartQuantity,
                                 totalAmount : { 0 },
                                 sale_date : { "created" },
                                 payment : { "none" },
                                 queue_entries : { 0 },
                                 failed_logs : { 0 },
                                 snapshots : { << >> } ] ]
    /\ locks = {}

StockRaceNext ==
    \/ \E r \in RequestIdInputs : RefundLoad(RefundSession, r)
    \/ RefundFlush(RefundSession)
    \/ \E outcome \in GatewayOutcomes : RefundGateway(RefundSession, outcome)
    \/ RefundRestock(RefundSession)
    \/ RefundCommit(RefundSession)
    \/ RefundReturn(RefundSession)
    \/ CheckoutReadCart(CheckoutSession)
    \/ \E allowed \in BOOLEAN : check_throttling(CheckoutSession, allowed)
    \/ CheckoutLock(CheckoutSession)
    \/ \E pay \in PaymentInputs, queued \in queue_order_for_retry :
          CheckoutPay(CheckoutSession, pay, queued)
    \/ CheckoutRevert(CheckoutSession)
    \/ CheckoutReturn(CheckoutSession)

StockRaceSpec == StockRaceInit /\ [][StockRaceNext]_vars

\* units of the product put back by the committed refund
UnitsRestocked ==
    IF requests[1].status = REFUNDED
      THEN apply_return_stock([ p \in Products |-> 0 ],
                              requests[1].return_items)[CartProduct]
      ELSE 0

RECURSIVE NotRejectedUpTo(_, _, _)
\* quantity of sale item s in the first k requests that are not REJECTED
NotRejectedUpTo(reqs, s, k) ==
    IF k = 0 THEN 0
    ELSE (IF reqs[k].status # REJECTED
            THEN SumQty(reqs[k].return_items, s) ELSE 0)
         + NotRejectedUpTo(reqs, s, k - 1)

\* C28: no operation puts a return request into PENDING_CUSTOMER_INFO or
\* CANCELLED, a REJECTED request stays REJECTED, and the quantities of
\* REJECTED requests are not reserved: what is reserved of a sale item is
\* what the requests that are not REJECTED hold.
C28_RejectedIsFinalAndReleased ==
    [][ /\ \A r \in 1..Len(requests') :
              requests'[r].status \notin { PENDING_CUSTOMER_INFO, CANCELLED }
        /\ Len(requests') >= Len(requests)
        /\ \A r \in 1..Len(requests) :
              requests[r].status = REJECTED => requests'[r] = requests[r]
        /\ \A r \in (Len(requests) + 1)..Len(requests') :
              requests'[r].status = PENDING_AUTHORIZATION
        /\ \A s \in SaleItemIds :
              reserved_quantity(requests', s)
                = NotRejectedUpTo(requests', s, Len(requests'))
      ]_rmaVars

\* after a rejection a new request for all purchased units of the item is
\* accepted
C28_Witness ==
    /\ lastOp.op = "create_return_request"
    /\ lastOp.ok
    /\ Len(requests) = 2
    /\ requests[1].status = REJECTED
    /\ SumQty(requests[1].return_items, 1) >= 1
    /\ Len(requests[2].return_items) = 1
    /\ requests[2].return_items[1].saleItemID = 1
    /\ requests[2].return_items[1].quantity = purchased[1]

(***************************************************************************)
(* Retried refunds.  process_refund runs when the refund endpoint is       *)
(* called; the retries and the gateway that answers in the end are the     *)
(* environment, stated as fairness of the retry whose gateway call         *)
(* succeeds.                                                               *)
(***************************************************************************)
\* process_refund called again for request r, _perform_refund not raising
RetryRefund(r) == ProcessRefund(r, 0, "ok")

RetrySpec ==
    /\ Init
    /\ [][Next]_vars
    /\ \A r \in 1..MaxRequests : SF_vars(RetryRefund(r))

\* request r is APPROVED and its Refund is FAILED
FailedRefundOf(r) ==
    /\ r \in 1..Len(requests)
    /\ requests[r].status = APPROVED
    /\ RefundOf(refunds, r) # 0
    /\ refunds[RefundOf(refunds, r)].status = "FAILED"

RECURSIVE StockAfterRefunds(_)
\* the initial stock with the items of each of the first k requests that is
\* REFUNDED put back once
StockAfterRefunds(k) ==
    IF k = 0 THEN [ p \in Products |-> InitStock ]
    ELSE IF requests[k].status = REFUNDED
      THEN apply_return_stock(StockAfterRefunds(k - 1),
                              requests[k].return_items)
    ELSE StockAfterRefunds(k - 1)

\* request r is REFUNDED, with one Refund, which is COMPLETED, after one
\* successful gateway refund, and the stock has every refunded request's
\* items put back once
RefundedOnce(r) ==
    /\ r \in 1..Len(requests)
    /\ requests[r].status = REFUNDED
    /\ Cardinality(RefundRowsOf(refunds, r)) = 1
    /\ refunds[RefundOf(refunds, r)].status = "COMPLETED"
    /\ gatewayRefunds[r] = 1
    /\ stock = StockAfterRefunds(Len(requests))

\* C29 (as claimed): from an APPROVED request whose Refund is FAILED, when
\* process_refund keeps being retried and the gateway succeeds in the end,
\* the request eventually is REFUNDED, its one Refund row COMPLETED, after
\* one successful gateway refund, and its items restocked once.
C29_FailedRefundRetrySucceeds ==
    \A r \in 1..MaxRequests : FailedRefundOf(r) ~> RefundedOnce(r)

(***************************************************************************)
(* Flash sales: one FlashSale row and its FlashSaleReservation rows.  The  *)
(* clock counts reservation lifetimes' worth of time.                      *)
(***************************************************************************)
MaxFlashQuantity == 2
MaxUsers == 2
MaxReservations == 2
\* FlashSale.end_time, on the clock
FlashEndTime == 3
\* timedelta(minutes=15), in ticks of the clock
ReservationLifetime == 1

TheFlashSale == 1
FlashSaleIdInputs == { TheFlashSale, TheFlashSale + 1 }
FlashUsers == 1..MaxUsers
QuantityInputs == 0..(MaxFlashQuantity + 1)
ReservationIdInputs == 1..(MaxReservations + 1)

\* FlashSale.is_active
is_active(fs, now) ==
    /\ fs.status = "active"
    /\ fs.start_time <= now
    /\ now <= fs.end_time
    /\ fs.reserved_quantity < fs.max_quantity

\* FlashSale.get_available_quantity
get_available_quantity(fs) == Max(0, fs.max_quantity - fs.reserved_quantity)

\* FlashSaleReservation.is_valid
is_valid(reservation, now) ==
    /\ reservation.status = "reserved"
    /\ now <= reservation.expires_at

\* the state after create_flash_sale: an active sale that ends in the
\* future, nothing reserved
FlashInit ==
    /\ purchased \in [ SaleItemIds -> 1..MaxPurchased ]
    /\ requests = << >>
    /\ refunds = << >>
    /\ stock = [ p \in Products |-> InitStock ]
    /\ notifications = [ r \in 1..MaxRequests |-> << >> ]
    /\ gatewayRefunds = [ r \in 1..MaxRequests |-> 0 ]
    /\ lastOp = NoOp
    /\ breaker = ClosedBreaker
    /\ clock = 0
    /\ calls = << >>
    /\ flash_sale \in [ status : { "active" }, start_time : { 0 },
                        end_time : { FlashEndTime },
                        max_quantity : 1..MaxFlashQuantity,
                        reserved_quantity : { 0 } ]
    /\ reservations = << >>
    /\ sess = [ t \in Sessions |-> Idle ]
    /\ sales = << >>
    /\ locks = {}

\* FlashSaleService.reserve_flash_sale_item
reserve_flash_sale_item(flash_sale_id, user_id, quantity) ==
    /\ Len(reservations) < MaxReservations
    /\ LET op == "reserve_flash_sale_item" IN
        IF flash_sale_id # TheFlashSale
          THEN /\ lastOp' = Failure(op, 0, "Flash sale not found")
               /\ UNCHANGED flashVars
        ELSE IF ~is_active(flash_sale, clock)
          THEN /\ lastOp' = Failure(op, 0, "Flash sale is not active")
               /\ UNCHANGED flashVars
        ELSE IF quantity <= 0
          THEN /\ lastOp' = Failure(op, 0, "Quantity must be positive")
               /\ UNCHANGED flashVars
        ELSE IF quantity > get_available_quantity(flash_sale)
          THEN /\ lastOp' = Failure(op, 0, "Not enough items available")
               /\ UNCHANGED flashVars
        ELSE IF \E k \in 1..Len(reservations) :
                    /\ reservations[k].userID = user_id
                    /\ reservations[k].status = "reserved"
          THEN /\ lastOp' = Failure(op, 0,
                     "You already have a reservation for this flash sale")
               /\ UNCHANGED flashVars
        ELSE /\ reservations' = Append(reservations,
                    [ userID |-> user_id, quantity |-> quantity,
                      expires_at |-> clock + ReservationLifetime,
                      status |-> "reserved" ])
             /\ flash_sale' = [ flash_sale EXCEPT
                                  !.reserved_quantity = @ + quantity ]
             /\ lastOp' = Result(op, Len(reservations) + 1, TRUE,
                                 "Items reserved successfully",
                                 << >>, << >>, FALSE)
    /\ UNCHANGED << brkVars, purchased, requests, refunds, stock,
                    notifications, gatewayRefunds, concVars >>

\* FlashSaleService.confirm_flash_sale_reservation
confirm_flash_sale_reservation(reservation_id) ==
    /\ LET op == "confirm_flash_sale_reservation" IN
        IF reservation_id \notin 1..Len(reservations)
          THEN /\ lastOp' = Failure(op, reservation_id, "Reservation not found")
               /\ UNCHANGED flashVars
        ELSE IF ~is_valid(reservations[reservation_id], clock)
          THEN /\ lastOp' = Failure(op, reservation_id,
                                    "Reservation has expired or is invalid")
               /\ UNCHANGED flashVars
        ELSE LET left == flash_sale.reserved_quantity
                           - reservations[reservation_id].quantity
             IN  /\ reservations' = [ reservations EXCEPT
                        ![reservation_id].status = "confirmed" ]
                 /\ flash_sale' = [ flash_sale EXCEPT
                        !.reserved_quantity = left,
                        !.status = IF left >= flash_sale.max_quantity
                                     THEN "expired" ELSE @ ]
                 /\ lastOp' = Result(op, reservation_id, TRUE,
                                     "Reservation confirmed successfully",
                                     << >>, << >>, FALSE)
    /\ UNCHANGED << brkVars, purchased, requests, refunds, stock,
                    notifications, gatewayRefunds, concVars >>

\* FlashSaleService.cancel_flash_sale_reservation
cancel_flash_sale_reservation(reservation_id) ==
    /\ LET op == "cancel_flash_sale_reservation" IN
        IF reservation_id \notin 1..Len(reservations)
          THEN /\ lastOp' = Failure(op, reservation_id, "Reservation not found")
               /\ UNCHANGED flashVars
        ELSE IF reservations[reservation_id].status # "reserved"
          THEN /\ lastOp' = Failure(op, reservation_id,
                                    "Reservation cannot be cancelled")
               /\ UNCHANGED flashVars
        ELSE /\ flash_sale' = [ flash_sale EXCEPT !.reserved_quantity =
                    @ - reservations[reservation_id].quantity ]
             /\ reservations' = [ reservations EXCEPT
                    ![reservation_id].status = "cancelled" ]
             /\ lastOp' = Result(op, reservation_id, TRUE,
                                 "Reservation cancelled successfully",
                                 << >>, << >>, FALSE)
    /\ UNCHANGED << brkVars, purchased, requests, refunds, stock,
                    notifications, gatewayRefunds, concVars >>

RECURSIVE UnitsIn(_, _)
\* units of the reservations whose status is in `statuses`
UnitsIn(rows, statuses) ==
    IF rows = << >> THEN 0
    ELSE (IF Head(rows).status \in statuses THEN Head(rows).quantity ELSE 0)
         + UnitsIn(Tail(rows), statuses)

\* FlashSaleService.cleanup_expired_reservations
cleanup_expired_reservations ==
    /\ LET expired_reservations ==
               { k \in 1..Len(reservations) :
                     /\ reservations[k].status = "reserved"
                     /\ reservations[k].expires_at < clock }
           released == UnitsIn([ k \in 1..Len(reservations) |->
                                   IF k \in expired_reservations
                                     THEN reservations[k]
                                     ELSE [ reservations[k] EXCEPT
                                              !.status = "other" ] ],
                               { "reserved" })
       IN  /\ reservations' = [ k \in 1..Len(reservations) |->
                  IF k \in expired_reservations
                    THEN [ reservations[k] EXCEPT !.status = "expired" ]
                    ELSE reservations[k] ]
           /\ flash_sale' = [ flash_sale EXCEPT
                                !.reserved_quantity = @ - released ]
           /\ lastOp' = Result("cleanup_expired_reservations",
                               Cardinality(expired_reservations), TRUE, "",
                               << >>, << >>, FALSE)
    /\ UNCHANGED << brkVars, purchased, requests, refunds, stock,
                    notifications, gatewayRefunds, concVars >>

FlashNext ==
    \/ \E f \in FlashSaleIdInputs, u \in FlashUsers, q \in QuantityInputs :
          reserve_flash_sale_item(f, u, q)
    \/ \E k \in ReservationIdInputs : confirm_flash_sale_reservation(k)
    \/ \E k \in ReservationIdInputs : cancel_flash_sale_reservation(k)
    \/ cleanup_expired_reservations
    \/ Tick

FlashSpec == FlashInit /\ [][FlashNext]_vars

\* C30 (as claimed): the units held by reserved reservations plus the units
\* of confirmed reservations never exceed the flash sale's max_quantity.
C30_ReservedPlusConfirmedWithinMax ==
    UnitsIn(reservations, { "reserved", "confirmed" })
        <= flash_sale.max_quantity

====
